---- MODULE Spec2Model ----
(***************************************************************************)
(* A model of the go-vast-client request engine: the uniform CRUD contract *)
(* of VastResourceEntry (api_methods.go), the cluster-version gate         *)
(* (checkVastResourceVersionCompat, Version.GetVersion / CompareWith), the  *)
(* generic dispatcher request[T] (session file) and the REST server the    *)
(* client talks to.                                                        *)
(*                                                                         *)
(* One behaviour follows the callers of one resource entry.  Every HTTP    *)
(* round trip is a suspension point: a request is dispatched by one action *)
(* and its response is handled by another.                                 *)
(***************************************************************************)
EXTENDS Integers, Sequences, FiniteSets, TLC

VARIABLES
    entry,       \* the VastResourceEntry the callers use (immutable descriptor)
    clusterVer,  \* sys_version the server reports, as its dot-separated segments
    store,       \* the server's records under entry.resourcePath
    sysVersion,  \* the process-wide version cache (vast_resource.go:54)
    fr,          \* per caller: the call in progress (locals, position, requests)
    prev,        \* the last Ensure call that returned, as its caller saw it
    dirty,       \* a third party changed the store since the current call began
    auth,        \* the session's JWTAuthenticator: initialized, Token
    mu,          \* the session's mutex: the caller holding it, or NoHolder
    now,         \* the wall clock, in minutes
    sc,          \* per caller: the dispatcher call in progress, step by step
    hist,        \* what has happened to the authenticator so far
    call         \* the last call of a helper on its own: arguments and result

\* the session layer: request[T], doRequest, Authorize seen step by step, and
\* the helper calls
sessVars == <<auth, mu, now, sc, hist, call>>

vars == <<entry, clusterVer, store, sysVersion, fr, prev, dirty, auth, mu, now, sc, hist, call>>

----------------------------------------------------------------------------
\* Bounds of the model

\* most records the server holds for the resource
MaxRecs == 2

\* callers the frames are kept for
NumCallers == 2

Callers == 1..NumCallers

\* the callers of the sequential specifications
SeqCallers == {1}

\* the callers that share the session in the session specification
SessCallers == {1, 2}

----------------------------------------------------------------------------
\* Values

Names == {"a", "b"}

\* ids given to the ById operations
IdArgs == {7}

\* the keys in use, in the order url.Values.Encode sorts them
KeyOrder == <<"block_host__id", "name", "path", "status", "volume__id">>

\* Params (map[string]any): nil, or a set of key/value pairs, one per key
NilParams == [nil |-> TRUE, kv |-> {}]

P(kv) == [nil |-> FALSE, kv |-> kv]

Has(p, k) == \E e \in p.kv : e[1] = k

Val(p, k) == (CHOOSE e \in p.kv : e[1] = k)[2]

\* m[k] = v on a non-nil map
SetKey(p, k, v) == [nil |-> FALSE, kv |-> {e \in p.kv : e[1] # k} \cup {<<k, v>>}]

\* Params.Update: for each key of other, `if exists && override { continue }`,
\* otherwise (*pr)[key] = value; the receiver afterwards (writing to a nil map
\* panics)
ParamsUpdate(pr, other, override) ==
    IF other.kv = {} THEN [kind |-> "ok", shape |-> "Params", val |-> pr]
    ELSE IF pr.nil THEN [kind |-> "panic", why |-> "assignment to entry in nil map"]
    ELSE [kind |-> "ok", shape |-> "Params",
          val |-> [nil |-> FALSE,
                   kv  |-> {e \in pr.kv : ~Has(other, e[1]) \/ override}
                           \cup {e \in other.kv : ~Has(pr, e[1]) \/ ~override}]]

\* no helper called yet
NoCall == [fn |-> "none"]

ParamSet == {NilParams, P({<<"name", "a">>}), P({<<"name", "b">>})}

BodySet == {NilParams, P({<<"path", "x">>}), P({<<"name", "b">>, <<"path", "x">>})}

\* A decoded JSON value of field "id": a Go dynamic type and a number.  A
\* float64 is kept in halves (<<"float64", 15>> is 7.5); <<"none", 0>> is a
\* record without the field.
NoId == <<"none", 0>>

F(h) == <<"float64", h>>

NoTag == "(untagged)"

Rec(id, name) == [id |-> id, name |-> name, rtype |-> NoTag]

\* records the server may hold at the start; every dynamic type toInt tells
\* apart occurs as the id of a record that can be the single match of a name
InitRecs ==
    { Rec(F(14), "a"), Rec(<<"int64", 8>>, "a"), Rec(NoId, "a"),
      Rec(F(15), "b"), Rec(<<"int", 9>>, "b"), Rec(<<"string", 7>>, "b") }

\* return values: (T, error)
NoRet == [kind |-> "none"]

Ok(shape, val) == [kind |-> "ok", shape |-> shape, val |-> val]

Error(e) == [kind |-> "err", err |-> e]

Panic(why) == [kind |-> "panic", why |-> why]

EmptyRecord == Ok("EmptyRecord", {})

IsOk(r) == r.kind = "ok"

IsErr(r) == r.kind = "err"

----------------------------------------------------------------------------
\* api_methods.go

NotFoundError(resource, query) ==
    [kind |-> "err", err |-> "notfound", Resource |-> resource, Query |-> query]

isNotFoundErr(r) == r.kind = "err" /\ r.err = "notfound"

AmbiguousError(resource, query) ==
    [kind |-> "err", err |-> "ambiguous", Resource |-> resource, Query |-> query]

VersionError(resourceType, clusterVersion, availableFrom) ==
    [kind |-> "err", err |-> "version", resourceType |-> resourceType,
     clusterVersion |-> clusterVersion, availableFrom |-> availableFrom]

----------------------------------------------------------------------------
\* utils.go

\* int64(v) of a float64 kept in halves: truncation toward zero
Trunc(h) == IF h >= 0 THEN h \div 2 ELSE -((-h) \div 2)

\* toInt without its float64 case: a JSON number is not accepted as an id
toIntNoFloat(val) ==
    CASE val[1] = "int64" -> [ok |-> TRUE, n |-> val[2]]
      [] val[1] = "int"   -> [ok |-> TRUE, n |-> val[2]]
      [] OTHER            -> [ok |-> FALSE, n |-> 0]

\* toInt: (int64, error) from the dynamic type of val
toInt(val) ==
    CASE val[1] = "int64"   -> [ok |-> TRUE, n |-> val[2]]
      [] val[1] = "float64" -> [ok |-> TRUE, n |-> Trunc(val[2])]
      [] val[1] = "int"     -> [ok |-> TRUE, n |-> val[2]]
      [] OTHER              -> [ok |-> FALSE, n |-> 0]

\* the keys of KeyOrder (sorted) that p holds, in order
RECURSIVE SortedPairs(_, _)
SortedPairs(p, i) ==
    IF i > Len(KeyOrder) THEN <<>>
    ELSE (IF Has(p, KeyOrder[i]) THEN << <<KeyOrder[i], Val(p, KeyOrder[i])>> >> ELSE <<>>)
         \o SortedPairs(p, i + 1)

\* convertMapToQuery: url.Values.Encode() lists key=value sorted by key; a nil
\* map ranges over nothing
convertMapToQuery(params) == SortedPairs(params, 1)

ToQuery(params) == convertMapToQuery(params)

\* sanitizeVersion: the first three dot-separated segments
sanitizeVersion(version) == SubSeq(version, 1, 3)

----------------------------------------------------------------------------
\* github.com/hashicorp/go-version, as vast_resource.go and rest.go use it

\* nil *version.Version
NoVersion == <<>>

\* NewVersion: at least three numeric segments, missing ones are zero
NewVersion(segments) ==
    [i \in 1..(IF Len(segments) < 3 THEN 3 ELSE Len(segments)) |->
        IF i <= Len(segments) THEN segments[i] ELSE 0]

\* Core: MAJOR.MINOR.PATCH only
Core(v) == SubSeq(v, 1, 3)

\* Compare: -1, 0 or 1, segment by segment
RECURSIVE CompareFrom(_, _, _)
CompareFrom(a, b, i) ==
    IF i > 3 THEN 0
    ELSE IF a[i] < b[i] THEN -1
    ELSE IF a[i] > b[i] THEN 1
    ELSE CompareFrom(a, b, i + 1)

Compare(a, b) == CompareFrom(a, b, 1)

----------------------------------------------------------------------------
\* rest.go

dummyClusterVersion == <<0, 0, 0>>

\* newResource that keeps "0.0.0" as a minimum version of its own
newResourceKeepDummy(resourcePath, resourceType, availableFromVersion) ==
    [resourcePath |-> resourcePath,
     resourceType |-> resourceType,
     apiVersion |-> "",
     availableFromVersion |-> NewVersion(availableFromVersion)]

\* newResource: "0.0.0" declares no minimum version; apiVersion is not among
\* the fields the struct literal sets and keeps its zero value
newResource(resourcePath, resourceType, availableFromVersion) ==
    [resourcePath |-> resourcePath,
     resourceType |-> resourceType,
     apiVersion |-> "",
     availableFromVersion |->
        IF availableFromVersion = dummyClusterVersion THEN NoVersion
        ELSE NewVersion(availableFromVersion)]

\* NewVMSRest: the minimum version each resource path is declared with
Declared(resourcePath) ==
    IF resourcePath \in {"blockhosts", "volumes", "blockhostvolumes"} THEN <<5, 3, 0>>
    ELSE dummyClusterVersion

\* NewVMSRest: the entries the model follows, and the one the gate queries
Views == newResource("views", "View", Declared("views"))

Volumes == newResource("volumes", "Volume", Declared("volumes"))

Versions == newResource("versions", "Version", Declared("versions"))

VTasks == newResource("vtasks", "VTask", Declared("vtasks"))

BlockHostMappings ==
    newResource("blockhostvolumes", "BlockHostMapping", Declared("blockhostvolumes"))

Entries == {Views, Volumes}

----------------------------------------------------------------------------
\* The REST server (the external collaborator the client talks to)

\* a request as the dispatcher builds it: verb, path ({resourcePath} or
\* {resourcePath}/{id}), encoded query, JSON body; by tells the gate's version
\* lookup from the operation's own request; sent: it went out on the wire
Path(base, sub) == [base |-> base, sub |-> sub]

\* the configuration NewVMSRest validated: host, port 443 and API version "v5"
\* unless given
Config == [Host |-> "vms.example", Port |-> 443, ApiVersion |-> "v5"]

\* no URL built yet
NoUrl == [Scheme |-> "", Host |-> "", Port |-> 0, prefix |-> <<>>, path |-> Path("", <<>>),
          RawQuery |-> <<>>]

\* buildUrl: a non-empty apiVer is replaced by config.ApiVersion, an empty one
\* stays empty; url.JoinPath("api", apiVer, path) leaves an empty element out
buildUrl(config, path, query, apiVer) ==
    LET ver == IF apiVer # "" THEN config.ApiVersion ELSE apiVer
    IN  [Scheme |-> "https", Host |-> config.Host, Port |-> config.Port,
         prefix |-> <<"api">> \o (IF ver = "" THEN <<>> ELSE <<ver>>),
         path |-> path, RawQuery |-> query]

Req(verb, path, query, body, by) ==
    [verb |-> verb, path |-> path, query |-> query, body |-> body, by |-> by,
     url |-> NoUrl, sent |-> FALSE]

\* the number a stored id denotes, in halves
Halves(id) == IF id[1] = "float64" THEN id[2] ELSE 2 * id[2]

IsNumber(id) == id[1] \in {"float64", "int64", "int"}

\* records of st that pass every filter of the query
Matches(st, query) ==
    {r \in st : \A i \in 1..Len(query) : query[i][1] = "name" => r.name = query[i][2]}

\* records of st addressed by {path}/{n}
ById(st, n) == {r \in st : IsNumber(r.id) /\ Halves(r.id) = 2 * n}

\* the order the server lists records in
RECURSIVE SeqOf(_)
SeqOf(S) ==
    IF S = {} THEN <<>>
    ELSE LET r == CHOOSE x \in S : \A y \in S : Halves(x.id) <= Halves(y.id)
         IN  <<r>> \o SeqOf(S \ {r})

\* the id a created record gets: the least positive integer not in use
FreshId(st) ==
    CHOOSE n \in 1..(Cardinality(st) + 1) : ById(st, n) = {}

\* the server's answer to a request that reached it: status class, decoded
\* body and the store afterwards
Reply(ok, shape, val, st) == [ok |-> ok, shape |-> shape, val |-> val, st |-> st]

Serve(req, st, ver) ==
    LET hit == IF req.path.sub = <<>> THEN {} ELSE ById(st, req.path.sub[1])
        one == CHOOSE r \in hit : TRUE
    IN
    IF req.path.base = Versions.resourcePath
    THEN Reply(TRUE, "RecordSet", <<[sys_version |-> ver, rtype |-> NoTag]>>, st)
    ELSE IF req.path.sub = <<>>
    THEN CASE req.verb = "GET" ->
                Reply(TRUE, "RecordSet", SeqOf(Matches(st, req.query)), st)
           [] req.verb = "POST" ->
                IF ~req.body.nil /\ Has(req.body, "name") /\ Cardinality(st) < MaxRecs
                THEN LET new == Rec(F(2 * FreshId(st)), Val(req.body, "name"))
                     IN  Reply(TRUE, "Record", new, st \cup {new})
                ELSE Reply(FALSE, "none", {}, st)
           [] OTHER -> Reply(FALSE, "none", {}, st)
    ELSE IF hit = {} THEN Reply(FALSE, "none", {}, st)
    ELSE CASE req.verb = "GET" -> Reply(TRUE, "Record", one, st)
           [] req.verb = "PATCH" ->
                LET upd == IF ~req.body.nil /\ Has(req.body, "name")
                           THEN [one EXCEPT !.name = Val(req.body, "name")]
                           ELSE one
                IN  Reply(TRUE, "Record", upd, (st \ {one}) \cup {upd})
           [] req.verb = "DELETE" -> Reply(TRUE, "EmptyRecord", {}, st \ {one})
           [] OTHER -> Reply(FALSE, "none", {}, st)

----------------------------------------------------------------------------
\* The dispatcher request[T] and what it returns

\* what may happen before the request goes out: the before-request hook
\* rejects it, the authenticator fails, or it is sent
Pre == {"ok", "hook", "auth"}

\* what may happen to a request that was sent: the server is unreachable, it
\* answers a non-2xx status of its own, the body does not decode into the
\* expected shape, the after-request hook fails, or all goes well
Outcomes == {"ok", "unreachable", "status", "decode", "afterhook"}

\* setResourceKey: stamp the resource type where no tag is present
\* a tagging that overwrites the tag a record already carries
TagAlways(rec, resourceType) == [rec EXCEPT !.rtype = resourceType]

Tag(rec, resourceType) ==
    IF rec.rtype = NoTag THEN [rec EXCEPT !.rtype = resourceType] ELSE rec

setResourceKey(shape, val, resourceType) ==
    CASE shape = "Record"    -> Tag(val, resourceType)
      [] shape = "RecordSet" -> [i \in 1..Len(val) |-> Tag(val[i], resourceType)]
      [] OTHER               -> val

\* request[T] from the response on: validateResponse, unmarshalToRecordUnion
\* (skipped for EmptyRecord), setResourceKey, doAfterRequest
requestReturn(resourceType, shape, out, reply) ==
    IF out = "unreachable" THEN Error("transport")
    ELSE IF out = "status" \/ ~reply.ok THEN Error("status")
    ELSE IF shape = "EmptyRecord"
    THEN (IF out = "afterhook" THEN Error("afterhook") ELSE EmptyRecord)
    ELSE IF out = "decode" \/ reply.shape # shape THEN Error("decode")
    ELSE IF out = "afterhook" THEN Error("afterhook")
    ELSE Ok(shape, setResourceKey(shape, reply.val, resourceType))

\* the request reached the server and was carried out
Reached(out) == out \notin {"unreachable", "status"}

----------------------------------------------------------------------------
\* A caller's frame: the call in progress

IdleFrame ==
    [pc |-> "idle", op |-> "none", meth |-> "none", at |-> "none",
     params |-> NilParams, name |-> "", id |-> 0, body |-> NilParams,
     given |-> NilParams, reqs |-> <<>>, gate |-> "none", cacheRead |-> FALSE,
     listRet |-> NoRet, getRet |-> NoRet, ret |-> NoRet,
     retries |-> 0, polls |-> 0, running |-> 0, last |-> NoRet]

\* a call of op enters its first method
Enter(op, meth, params, name, id, body) ==
    [IdleFrame EXCEPT !.pc = "gate", !.op = op, !.meth = meth, !.params = params,
                      !.name = name, !.id = id, !.body = body, !.given = body]

Done(f, r) == [f EXCEPT !.pc = "done", !.at = "none", !.ret = r]

\* the expected response shape T of each method's request
Shape(meth) ==
    CASE meth \in {"List", "Get"} -> "RecordSet"
      [] meth = "DeleteById"      -> "EmptyRecord"
      [] OTHER                    -> "Record"

\* the requests of methods that update with PUT
MethodReqPut(f, e) ==
    LET base == Path(e.resourcePath, <<>>)
        item == Path(e.resourcePath, <<f.id>>)
    IN
    CASE f.meth \in {"List", "Get"} -> Req("GET", base, ToQuery(f.params), NilParams, "op")
      [] f.meth = "Create"     -> Req("POST", base, <<>>, f.body, "op")
      [] f.meth = "Update"     -> Req("PUT", item, <<>>, f.body, "op")
      [] f.meth = "DeleteById" -> Req("DELETE", item, <<>>, NilParams, "op")
      [] f.meth = "GetById"    -> Req("GET", item, <<>>, NilParams, "op")

\* the request each method hands to request[T] (api_methods.go)
MethodReq(f, e) ==
    LET base == Path(e.resourcePath, <<>>)
        item == Path(e.resourcePath, <<f.id>>)
    IN
    CASE f.meth \in {"List", "Get"} -> Req("GET", base, ToQuery(f.params), NilParams, "op")
      [] f.meth = "Create"     -> Req("POST", base, <<>>, f.body, "op")
      [] f.meth = "Update"     -> Req("PATCH", item, <<>>, f.body, "op")
      [] f.meth = "DeleteById" -> Req("DELETE", item, <<>>, NilParams, "op")
      [] f.meth = "GetById"    -> Req("GET", item, <<>>, NilParams, "op")

\* Version.GetVersion's lookup: List on the versions entry
VersionReq ==
    Req("GET", Path(Versions.resourcePath, <<>>), ToQuery(P({<<"status", "success">>})),
        NilParams, "gate")

----------------------------------------------------------------------------
\* api_methods.go: the methods of VastResourceEntry

\* Get that reports every count other than one as not-found
GetResultNotOne(e, params, r) ==
    IF IsErr(r) THEN r
    ELSE CASE Len(r.val) = 1 -> Ok("Record", r.val[1])
           [] OTHER          -> NotFoundError(e.resourcePath, ToQuery(params))

\* Get that settles for the first of several matches
GetResultFirst(e, params, r) ==
    IF IsErr(r) THEN r
    ELSE CASE Len(r.val) = 0 -> NotFoundError(e.resourcePath, ToQuery(params))
           [] OTHER          -> Ok("Record", r.val[1])

\* Get, after its list request returned r: exactly one match or an error
GetResult(e, params, r) ==
    IF IsErr(r) THEN r
    ELSE CASE Len(r.val) = 0 -> NotFoundError(e.resourcePath, ToQuery(params))
           [] Len(r.val) = 1 -> Ok("Record", r.val[1])
           [] OTHER          -> AmbiguousError(e.resourcePath, ToQuery(params))

\* what the method in progress returns when its request returned r
MethodResult(f, e, r) ==
    IF f.meth = "Get" THEN GetResult(e, f.params, r) ELSE r

\* Delete that passes a not-found lookup on as an error
DeleteAfterGetStrict(f, r) ==
    IF IsErr(r) THEN Done(f, r)
    ELSE IF r.val.id = NoId THEN Done(f, Error("noid"))
    ELSE IF ~toInt(r.val.id).ok THEN Done(f, Error("idtype"))
    ELSE [f EXCEPT !.pc = "gate", !.at = "none", !.meth = "DeleteById",
                   !.id = toInt(r.val.id).n]

\* Delete, after its Get returned r
DeleteAfterGet(f, r) ==
    IF IsErr(r)
    THEN (IF isNotFoundErr(r) THEN Done(f, EmptyRecord) ELSE Done(f, r))
    ELSE IF r.val.id = NoId THEN Done(f, Error("noid"))
    ELSE IF ~toInt(r.val.id).ok THEN Done(f, Error("idtype"))
    ELSE [f EXCEPT !.pc = "gate", !.at = "none", !.meth = "DeleteById",
                   !.id = toInt(r.val.id).n]

\* Ensure that creates whether or not the lookup found the record
EnsureAfterGetAlways(f, r) ==
    IF IsErr(r) /\ ~isNotFoundErr(r) THEN Done(f, r)
    ELSE IF f.body.nil THEN Done(f, Panic("assignment to entry in nil map"))
    ELSE [f EXCEPT !.pc = "gate", !.at = "none", !.meth = "Create",
                   !.body = SetKey(@, "name", f.name)]

\* Ensure that takes every failed lookup for not-found
EnsureAfterGetAnyErr(f, r) ==
    IF IsErr(r)
    THEN (IF f.body.nil THEN Done(f, Panic("assignment to entry in nil map"))
          ELSE [f EXCEPT !.pc = "gate", !.at = "none", !.meth = "Create",
                         !.body = SetKey(@, "name", f.name)])
    ELSE Done(f, r)

\* Ensure, after its Get returned r; body["name"] = name faults on a nil map
EnsureAfterGet(f, r) ==
    IF isNotFoundErr(r)
    THEN (IF f.body.nil THEN Done(f, Panic("assignment to entry in nil map"))
          ELSE [f EXCEPT !.pc = "gate", !.at = "none", !.meth = "Create",
                         !.body = SetKey(@, "name", f.name)])
    ELSE Done(f, r)

\* vast_resource.go: the operations of BlockHostMapping and VTask.WaitTask

\* the operations that end in VTasks.WaitTask
MapOps == {"Map", "UnMap", "EnsureMap"}

\* the operations that run WaitTask's loop: those, and WaitTask called directly
WaitOps == MapOps \cup {"WaitTask"}

\* WaitTask: retries := 30
WaitTaskRetries == 30

\* the body Map and UnMap send: one host/volume pair to add or to remove
PairsBody(key, hostId, volumeId) == P({<<key, <<hostId, volumeId>>>>})

\* the request Map and UnMap hand to request[Record]: PATCH {resourcePath}/bulk
BulkReq(f, e) == Req("PATCH", Path(e.resourcePath, <<"bulk">>), <<>>, f.body, "op")

\* WaitTask's task fetch: VTasks.GetById(ctx, taskId)
PollReq(f) == Req("GET", Path(VTasks.resourcePath, <<f.id>>), <<>>, NilParams, "poll")

\* strings.ToLower on the task states in use
ToLower(state) ==
    CASE state = "COMPLETED" -> "completed"
      [] state = "Running"   -> "running"
      [] OTHER               -> state

\* "task %s failed with ID %s: %s" with the last message
TaskFailedError(lastMsg) == [kind |-> "err", err |-> "taskfailed", reason |-> lastMsg]

\* isTaskComplete comparing the state as the server spelled it
isTaskCompleteCaseSensitive(r) ==
    IF IsErr(r) THEN r
    ELSE IF ~toInt(r.val.id).ok THEN Error("idtype")
    ELSE CASE r.val.state = "completed" -> r
           [] r.val.state = "running"   -> Error("running")
           [] OTHER ->
                IF ~r.val.messages.list THEN Error("messageformat")
                ELSE IF Len(r.val.messages.items) = 0 THEN Error("nomessages")
                ELSE TaskFailedError(r.val.messages.items[Len(r.val.messages.items)])

\* isTaskComplete on what GetById returned: the task, or an error
isTaskComplete(r) ==
    IF IsErr(r) THEN r
    ELSE IF ~toInt(r.val.id).ok THEN Error("idtype")
    ELSE CASE ToLower(r.val.state) = "completed" -> r
           [] ToLower(r.val.state) = "running"   -> Error("running")
           [] OTHER ->
                IF ~r.val.messages.list THEN Error("messageformat")
                ELSE IF Len(r.val.messages.items) = 0 THEN Error("nomessages")
                ELSE TaskFailedError(r.val.messages.items[Len(r.val.messages.items)])

\* the fetch that returned r is counted in polls and leaves the log of
\* requests; for WaitTask called on its own, r is kept as the last thing seen
\* and counted if the task ran
Polled(f, r) ==
    LET g == [f EXCEPT !.reqs = SubSeq(@, 1, Len(@) - 1), !.polls = @ + 1, !.at = "none"]
    IN  IF f.op # "WaitTask" THEN g
        ELSE [g EXCEPT !.last = r,
                       !.running = IF isTaskComplete(r) = Error("running") THEN @ + 1 ELSE @]

\* WaitTask's loop going round once more when retries has reached zero
WaitTaskAfterPollOneMore(f, r) ==
    LET g == Polled(f, r)
    IN  IF IsOk(isTaskComplete(r)) THEN Done(g, isTaskComplete(r))
        ELSE IF f.retries - 1 >= 0 THEN [g EXCEPT !.pc = "poll", !.retries = @ - 1]
        ELSE Done([g EXCEPT !.retries = @ - 1], Error("task did not complete in time"))

\* WaitTask's loop giving up on the first fetch that fails
WaitTaskAfterPollStopOnError(f, r) ==
    LET g == Polled(f, r)
    IN  IF IsOk(isTaskComplete(r)) THEN Done(g, isTaskComplete(r))
        ELSE IF IsErr(r) THEN Done([g EXCEPT !.retries = @ - 1], r)
        ELSE IF f.retries - 1 > 0 THEN [g EXCEPT !.pc = "poll", !.retries = @ - 1]
        ELSE Done([g EXCEPT !.retries = @ - 1], Error("task did not complete in time"))

\* WaitTask's loop spending its budget only on a task seen running
WaitTaskAfterPollWhileFailing(f, r) ==
    LET g == Polled(f, r)
        n == IF isTaskComplete(r) = Error("running") THEN f.retries - 1 ELSE f.retries
    IN  IF IsOk(isTaskComplete(r)) THEN Done(g, isTaskComplete(r))
        ELSE IF n > 0 THEN [g EXCEPT !.pc = "poll", !.retries = n]
        ELSE Done([g EXCEPT !.retries = n], Error("task did not complete in time"))

\* WaitTask's loop after one task fetch returned r: err == nil returns the
\* task, any error is slept on and retried while retries > 0
WaitTaskAfterPoll(f, r) ==
    LET g == Polled(f, r)
    IN  IF IsOk(isTaskComplete(r)) THEN Done(g, isTaskComplete(r))
        ELSE IF f.retries - 1 > 0 THEN [g EXCEPT !.pc = "poll", !.retries = @ - 1]
        ELSE Done([g EXCEPT !.retries = @ - 1], Error("task did not complete in time"))

\* Map and UnMap, after request[Record] for the bulk PATCH returned r
MapAfterBulk(f, r) ==
    IF IsErr(r) THEN Done(f, r)
    ELSE IF ~toInt(r.val.id).ok THEN Done(f, Error("idtype"))
    ELSE [f EXCEPT !.pc = "poll", !.at = "none", !.meth = "GetById",
                   !.id = toInt(r.val.id).n, !.retries = WaitTaskRetries]

\* EnsureMap, after its Get returned r
EnsureMapAfterGet(f, r) ==
    IF isNotFoundErr(r)
    THEN [f EXCEPT !.pc = "bulk", !.at = "none", !.meth = "Bulk",
                   !.body = PairsBody("pairs_to_add", Val(f.params, "block_host__id"),
                                      Val(f.params, "volume__id"))]
    ELSE Done(f, r)

\* a method that runs once more when its request failed on the way
MethodReturnRetry(f, r) ==
    LET g == [f EXCEPT !.getRet = IF f.meth = "Get" THEN r ELSE @]
    IN  CASE f.op = "Delete" /\ f.meth = "Get" -> DeleteAfterGet(g, r)
          [] f.op = "Ensure" /\ f.meth = "Get" -> EnsureAfterGet(g, r)
          [] f.op = "EnsureMap" /\ f.meth = "Get" -> EnsureMapAfterGet(g, r)
          [] f.op \in MapOps /\ f.meth = "Bulk" -> MapAfterBulk(g, r)
          [] f.op \in WaitOps /\ f.meth = "GetById" -> WaitTaskAfterPoll(g, r)
          [] r \in {Error("transport"), Error("status")} /\ Len(f.reqs) < 2 ->
                [g EXCEPT !.pc = "gate", !.at = "none"]
          [] OTHER -> Done(g, r)

\* the method in progress returns r to the operation that called it (Delete
\* and Ensure keep what their Get returned as result, err)
MethodReturn(f, r) ==
    LET g == [f EXCEPT !.getRet = IF f.meth = "Get" THEN r ELSE @]
    IN  CASE f.op = "Delete" /\ f.meth = "Get" -> DeleteAfterGet(g, r)
          [] f.op = "Ensure" /\ f.meth = "Get" -> EnsureAfterGet(g, r)
          [] f.op = "EnsureMap" /\ f.meth = "Get" -> EnsureMapAfterGet(g, r)
          [] f.op \in MapOps /\ f.meth = "Bulk" -> MapAfterBulk(g, r)
          [] f.op \in WaitOps /\ f.meth = "GetById" -> WaitTaskAfterPoll(g, r)
          [] OTHER -> Done(g, r)

\* request[T] returned r to the method in progress (Get keeps it as result, err)
Returned(f, e, r) ==
    MethodReturn([f EXCEPT !.listRet = IF f.meth = "Get" THEN r ELSE @],
                 MethodResult(f, e, r))

\* request[T] up to the HTTP call: a request rejected by the before-request
\* hook or left without credentials returns its error at once
Dispatch(f, e, req, at, pre) ==
    LET built == [req EXCEPT !.url = buildUrl(Config, req.path, req.query, e.apiVersion)]
    IN
    IF pre = "ok"
    THEN [f EXCEPT !.pc = "await", !.at = at,
                   !.reqs = Append(@, [built EXCEPT !.sent = TRUE])]
    ELSE LET g == [f EXCEPT !.reqs = Append(@, built)]
         IN  IF at = "gate"
             THEN (IF f.op = "GetVersion" THEN Done(g, Error(pre))
                   ELSE MethodReturn([g EXCEPT !.gate = "error"], Error(pre)))
             ELSE Returned(g, e, Error(pre))

\* checkVastResourceVersionCompat with a version at hand (cached or fetched)
CompareWith(clusterVersion, other) == Compare(clusterVersion, other)

\* a gate that also rejects a cluster exactly at the minimum
GateVerdictNotNewer(e, clusterVersion) ==
    IF CompareWith(clusterVersion, e.availableFromVersion) # 1 THEN "reject" ELSE "pass"

GateVerdict(e, clusterVersion) ==
    IF CompareWith(clusterVersion, e.availableFromVersion) = -1 THEN "reject" ELSE "pass"

\* the gate's outcome on frame f once the version is known
Gated(f, e, clusterVersion, pre) ==
    IF GateVerdict(e, clusterVersion) = "reject"
    THEN MethodReturn([f EXCEPT !.gate = "reject"],
                      VersionError(e.resourceType, clusterVersion, e.availableFromVersion))
    ELSE Dispatch([f EXCEPT !.gate = "pass"], e, MethodReq(f, e), "main", pre)

\* the gated methods without the two that address {resourcePath}/{id} directly
GatedMethodsNoById == {"List", "Create", "Update", "Get"}

\* the methods that begin with checkVastResourceVersionCompat
GatedMethods == {"List", "Create", "Update", "DeleteById", "Get", "GetById"}

\* a gate check that looks the version up every time
checkVastResourceVersionCompatNoCache(f, e, sv, pre) ==
    IF f.meth \notin GatedMethods \/ e.availableFromVersion = NoVersion
    THEN Dispatch([f EXCEPT !.gate = "pass"], e, MethodReq(f, e), "main", pre)
    ELSE Dispatch([f EXCEPT !.cacheRead = TRUE], e, VersionReq, "gate", pre)

\* checkVastResourceVersionCompat at the start of a method
checkVastResourceVersionCompat(f, e, sv, pre) ==
    IF f.meth \notin GatedMethods \/ e.availableFromVersion = NoVersion
    THEN Dispatch([f EXCEPT !.gate = "pass"], e, MethodReq(f, e), "main", pre)
    ELSE IF sv # NoVersion
    THEN Gated([f EXCEPT !.cacheRead = TRUE], e, sv, pre)
    ELSE Dispatch([f EXCEPT !.cacheRead = TRUE], e, VersionReq, "gate", pre)

----------------------------------------------------------------------------
\* vast_resource.go: Version.GetVersion

\* the versions the server may report: below the minimum of Volumes, equal to it
\* with a build qualifier, and above it
RawVersions == {<<5, 2, 9, 1>>, <<5, 3, 0, 12>>, <<6, 0, 0>>}

\* what the status query may yield: no record, a record whose sys_version is
\* missing or is not a JSON string (the key is then absent from the model's
\* record: result[0]["sys_version"].(string) fails alike on both), a version
\* of fewer than three segments, and the versions of RawVersions
VersionLists ==
    {<<>>, <<[rtype |-> NoTag]>>}
    \cup {<<[sys_version |-> v, rtype |-> NoTag]>> : v \in {<<5>>, <<5, 3>>} \cup RawVersions}

\* GetVersion caching the version as the server spelled it
GetVersionParseRaw(r) ==
    IF Len(r.val) = 0 THEN Panic("index out of range")
    ELSE IF "sys_version" \notin DOMAIN r.val[1] THEN Panic("interface conversion")
    ELSE Ok("Version", r.val[1].sys_version)

\* GetVersion on the list the lookup returned: result[0]["sys_version"],
\* sanitizeVersion, NewVersion, Core
GetVersionParse(r) ==
    IF Len(r.val) = 0 THEN Panic("index out of range")
    ELSE IF "sys_version" \notin DOMAIN r.val[1] THEN Panic("interface conversion")
    ELSE IF Len(r.val[1].sys_version) < 3 THEN Panic("slice bounds out of range")
    ELSE Ok("Version", Core(NewVersion(sanitizeVersion(r.val[1].sys_version))))

----------------------------------------------------------------------------
\* auth.go, utils.go, the session file: the values of the session layer

\* TokenRefreshTime = 10 minutes
TokenRefreshTime == 10

\* the last minute the clock reaches
MaxClock == 15
MaxAuthClock == 25

\* the minutes between two readings of the clock
TickStep == 5

\* the mutex is free
NoHolder == 0

\* *jwtToken: nil, or the token parseToken built from an exchange response;
\* the server's access and refresh values name the exchange and its minute
NoToken == [held |-> FALSE, Access |-> <<"none", 0>>, Refresh |-> <<"none", 0>>, CreatedAt |-> 0]

Token(kind, t) ==
    [held |-> TRUE, Access |-> <<kind, t>>, Refresh |-> <<kind, t>>, CreatedAt |-> t]

\* *http.Response: nil, or a status code with a body
NoResponse == [nil |-> TRUE, StatusCode |-> 0, Body |-> "none"]

HttpResp(code, body) == [nil |-> FALSE, StatusCode |-> code, Body |-> body]

\* what an exchange may come back with: no response, 2xx with a token, 2xx
\* with an undecodable body, or a refusal
ExchangeResps ==
    {NoResponse, HttpResp(200, "json"), HttpResp(200, "garbage"), HttpResp(401, "json")}

\* what a resource request may come back with
HttpResps ==
    {NoResponse, HttpResp(199, "json"), HttpResp(200, "json"), HttpResp(200, "tagged"),
     HttpResp(200, "garbage"), HttpResp(204, "empty"), HttpResp(299, "json"),
     HttpResp(300, "json")}

\* validateResponse accepting every response that is not nil
validateResponseLax(response) ==
    IF response.nil THEN [resp |-> NoResponse, err |-> "unreachable"]
    ELSE [resp |-> response, err |-> "nil"]

\* validateResponse with the upper end of the 2xx range left out
validateResponseStrict(response) ==
    IF response.nil THEN [resp |-> NoResponse, err |-> "unreachable"]
    ELSE IF response.StatusCode >= 200 /\ response.StatusCode < 299
    THEN [resp |-> response, err |-> "nil"]
    ELSE [resp |-> response, err |-> "status"]

\* validateResponse: (response, error)
validateResponse(response) ==
    IF response.nil THEN [resp |-> NoResponse, err |-> "unreachable"]
    ELSE IF response.StatusCode >= 200 /\ response.StatusCode <= 299
    THEN [resp |-> response, err |-> "nil"]
    ELSE [resp |-> response, err |-> "status"]

\* parseToken: json.Unmarshal of the body, CreatedAt = time.Now()
parseToken(rsp, kind, t) ==
    IF rsp.Body = "garbage" THEN [tok |-> NoToken, err |-> "decode"]
    ELSE [tok |-> Token(kind, t), err |-> "nil"]

\* the request of an exchange: where it goes and what it carries
NoExchange == [url |-> NoUrl, body |-> <<"none", 0>>]

\* a refreshToken that sends the refresh value of the first acquisition
refreshTokenFirst(a, config) ==
    [url  |-> [Scheme |-> "https", Host |-> config.Host, Port |-> NoUrl.Port,
               prefix |-> <<"api">>, path |-> Path("token/refresh", <<>>), RawQuery |-> <<>>],
     body |-> <<"acquire", 0>>]

\* refreshToken: POST https://{config.Host}/api/token/refresh/ with
\* {"refresh": auth.Token.Refresh}; the URL names no port
refreshToken(a, config) ==
    [url  |-> [Scheme |-> "https", Host |-> config.Host, Port |-> NoUrl.Port,
               prefix |-> <<"api">>, path |-> Path("token/refresh", <<>>), RawQuery |-> <<>>],
     body |-> a.Token.Refresh]

\* acquireToken: POST https://{config.Host}:{config.Port}/api/token/ with the
\* user name and the password
acquireToken(a, config) ==
    [url  |-> [Scheme |-> "https", Host |-> config.Host, Port |-> config.Port,
               prefix |-> <<"api">>, path |-> Path("token", <<>>), RawQuery |-> <<>>],
     body |-> <<"credentials", 0>>]

\* Authorize's branch with the refresh threshold itself still taken for fresh
AuthorizeBranchLate(a, t) ==
    IF a.initialized
    THEN (IF ~a.Token.held THEN "fault"
          ELSE IF t - a.Token.CreatedAt > TokenRefreshTime THEN "refresh"
          ELSE "fresh")
    ELSE "acquire"

\* Authorize's branch that never finds the token expired
AuthorizeBranchNoRefresh(a, t) ==
    IF a.initialized
    THEN (IF ~a.Token.held THEN "fault" ELSE "fresh")
    ELSE "acquire"

\* Authorize inside the lock: which way it goes at time t (auth.Token.CreatedAt
\* on a nil Token is a nil pointer dereference)
AuthorizeBranch(a, t) ==
    IF a.initialized
    THEN (IF ~a.Token.held THEN "fault"
          ELSE IF t - a.Token.CreatedAt >= TokenRefreshTime THEN "refresh"
          ELSE "fresh")
    ELSE "acquire"

\* s.Lock() that never blocks
CanLockAlways(m) == TRUE

\* s.Lock() returns only while nobody holds the mutex
CanLock(m) == m = NoHolder

\* doBeforeRequest: the error of the before-request hook, or nil
doBeforeRequest(hookErr) == hookErr

\* the value an after-request hook may put in place of the result
HookValue == [id |-> F(2), name |-> "hooked", rtype |-> "Hooked"]

\* the shapes request[T] is instantiated with
Shapes == {"Record", "RecordSet", "EmptyRecord"}

\* a value of the given shape made by the hook
HookResult(shape) ==
    CASE shape = "Record"    -> Ok(shape, HookValue)
      [] shape = "RecordSet" -> Ok(shape, <<HookValue>>)
      [] OTHER               -> EmptyRecord

\* what an after-request hook may do with the result it is given
Hooks == {"keep", "replace", "reshape", "error"}

\* doAfterRequest: what the after-request hook returns for the result it got:
\* the result, a value of its shape, a Renderable of another shape, or an error
doAfterRequest(result, hook) ==
    CASE hook = "error"   -> Error("afterhook")
      [] hook = "replace" -> HookResult(result.shape)
      [] hook = "reshape" -> HookResult(IF result.shape = "Record" THEN "RecordSet" ELSE "Record")
      [] OTHER            -> result

\* interceptedResult.(T): the type assertion of the hook's value
assertT(shape, r) ==
    IF IsOk(r) /\ r.shape # shape THEN Panic("interface conversion") ELSE r

\* the record a resource request's JSON body decodes into
Decoded(body) ==
    IF body = "tagged" THEN [Rec(F(14), "a") EXCEPT !.rtype = "Other"] ELSE Rec(F(14), "a")

\* the record set a resource request's JSON body decodes into: of a body with
\* tags, one record carries a tag and the next does not
DecodedSet(body) ==
    IF body = "tagged" THEN <<Decoded("tagged"), Rec(F(16), "b")>> ELSE <<Decoded(body)>>

\* the bodies json.Unmarshal rejects: no JSON, and nothing at all
Undecodable == {"garbage", "empty"}

\* an unmarshalToRecordUnion that reads and decodes the body for every shape
unmarshalToRecordUnionAlways(shape, response) ==
    IF response.Body \in Undecodable THEN Error("decode")
    ELSE IF shape = "EmptyRecord" THEN EmptyRecord
    ELSE IF shape = "RecordSet" THEN Ok(shape, DecodedSet(response.Body))
    ELSE Ok(shape, Decoded(response.Body))

\* whether unmarshalToRecordUnion gets as far as io.ReadAll(response.Body)
ReadsBody(shape) == shape # "EmptyRecord"

\* unmarshalToRecordUnion: an EmptyRecord is returned without reading the body
unmarshalToRecordUnion(shape, response) ==
    IF ~ReadsBody(shape) THEN EmptyRecord
    ELSE IF response.Body \in Undecodable THEN Error("decode")
    ELSE IF shape = "RecordSet" THEN Ok(shape, DecodedSet(response.Body))
    ELSE Ok(shape, Decoded(response.Body))

\* a dispatcher call in progress, with what it has done so far
SessIdle ==
    [pc |-> "idle", shape |-> "none", trace |-> <<>>, hookErr |-> "nil",
     kind |-> "none", acq |-> 0, ref |-> 0,
     waited |-> FALSE, exReq |-> NoExchange, exResp |-> NoResponse, authErr |-> "nil",
     sent |-> FALSE, hdr |-> <<"none", 0>>,
     resp |-> NoResponse, vr |-> [resp |-> NoResponse, err |-> "nil"], bodyRead |-> FALSE,
     afterArg |-> NoRet, afterCalls |-> 0, hook |-> "none", ret |-> NoRet]

NoAuth == [initialized |-> FALSE, Token |-> NoToken]

\* what has happened on the session so far: an Authorize began, an exchange
\* failed, the acquire exchanges sent, the minute of the last issuance
NoHist == [began |-> FALSE, failed |-> FALSE, acqs |-> 0, lastIssue |-> -1]

\* the call returns r
SessDone(f, r) == [f EXCEPT !.pc = "done", !.ret = r]

\* request[T] going on to the HTTP call whatever the before-request hook said
requestAfterBeforeIgnored(f, err) ==
    [f EXCEPT !.pc = "lock", !.hookErr = err, !.trace = Append(@, "before")]

\* request[T] after doBeforeRequest: its error is returned at once
requestAfterBefore(f, err) ==
    LET g == [f EXCEPT !.hookErr = err, !.trace = Append(@, "before")]
    IN  IF err # "nil" THEN SessDone(g, Error(err)) ELSE [g EXCEPT !.pc = "lock"]

\* doRequest sending the request whatever setupHeaders said
doRequestAfterHeadersIgnored(f, err) ==
    [f EXCEPT !.pc = "header", !.authErr = err]

\* doRequest after setupHeaders: SetAuthHeader's error is returned before
\* client.Do
doRequestAfterHeaders(f, err) ==
    LET g == [f EXCEPT !.authErr = err]
    IN  IF err # "nil" THEN SessDone(g, Error(err)) ELSE [g EXCEPT !.pc = "header"]

\* request[T] from the response of the session verb on: doRequest returns
\* validateResponse(response), then unmarshalToRecordUnion, then setResourceKey
requestAfterHttp(f, response, resourceType) ==
    LET v   == validateResponse(response)
        g   == [f EXCEPT !.resp = response, !.vr = v, !.trace = Append(@, "http")]
        res == unmarshalToRecordUnion(f.shape, response)
        h   == [g EXCEPT !.trace = Append(@, "decode"), !.bodyRead = ReadsBody(f.shape)]
    IN  IF response.nil THEN SessDone(g, Error("transport"))
        ELSE IF v.err # "nil" THEN SessDone([g EXCEPT !.bodyRead = TRUE], Error("status"))
        ELSE IF IsErr(res) THEN SessDone(h, res)
        ELSE [h EXCEPT !.pc = "after", !.trace = Append(@, "tag"),
                       !.afterArg = Ok(f.shape, setResourceKey(f.shape, res.val, resourceType))]

\* the session layer right after NewVMSSession
SessInit ==
    /\ auth = NoAuth
    /\ mu = NoHolder
    /\ now = 0
    /\ sc = [c \in Callers |-> SessIdle]
    /\ hist = NoHist
    /\ call = NoCall

----------------------------------------------------------------------------
\* State

NoPrev == [name |-> "", ret |-> NoRet, posts |-> 0]

Init ==
    /\ entry \in Entries
    /\ clusterVer \in RawVersions
    /\ store \in {S \in SUBSET InitRecs : Cardinality(S) <= MaxRecs}
    /\ sysVersion = NoVersion
    /\ fr = [c \in Callers |-> IdleFrame]
    /\ prev = NoPrev
    /\ dirty = FALSE
    /\ SessInit

Idle(c) == fr[c].pc = "idle"

\* a caller starts an operation
Start(c, f) ==
    /\ Idle(c)
    /\ fr' = [fr EXCEPT ![c] = f]
    /\ UNCHANGED <<sessVars, entry, clusterVer, store, sysVersion>>

List(c, params) == Start(c, Enter("List", "List", params, "", 0, NilParams))

Get(c, params) == Start(c, Enter("Get", "Get", params, "", 0, NilParams))

GetById(c, id) == Start(c, Enter("GetById", "GetById", NilParams, "", id, NilParams))

Create(c, body) == Start(c, Enter("Create", "Create", NilParams, "", 0, body))

Update(c, id, body) == Start(c, Enter("Update", "Update", NilParams, "", id, body))

DeleteById(c, id) == Start(c, Enter("DeleteById", "DeleteById", NilParams, "", id, NilParams))

\* Delete begins with e.Get(ctx, params)
Delete(c, params) == Start(c, Enter("Delete", "Get", params, "", 0, NilParams))

\* Ensure begins with e.Get(ctx, Params{"name": name})
Ensure(c, name, body) ==
    Start(c, Enter("Ensure", "Get", P({<<"name", name>>}), name, 0, body))

\* rest.Versions.GetVersion(ctx) called directly
GetVersion(c) == Start(c, Enter("GetVersion", "GetVersion", NilParams, "", 0, NilParams))

\* the method in progress runs its gate check and, if it passes, dispatches
\* the method's request
GateStep(c, pre) ==
    /\ fr[c].pc = "gate"
    /\ fr[c].op # "GetVersion"
    /\ fr' = [fr EXCEPT ![c] = checkVastResourceVersionCompat(fr[c], entry, sysVersion, pre)]
    /\ UNCHANGED <<sessVars, entry, clusterVer, store, sysVersion>>

\* GetVersion called directly: the cached version, or the lookup
GetVersionStep(c, pre) ==
    /\ fr[c].pc = "gate"
    /\ fr[c].op = "GetVersion"
    /\ fr' = [fr EXCEPT ![c] =
                IF sysVersion # NoVersion
                THEN Done([fr[c] EXCEPT !.cacheRead = TRUE], Ok("Version", sysVersion))
                ELSE Dispatch([fr[c] EXCEPT !.cacheRead = TRUE], entry, VersionReq, "gate", pre)]
    /\ UNCHANGED <<sessVars, entry, clusterVer, store, sysVersion>>

\* a gate check that lets the operation through when the lookup failed
LookupReturnPassOnError(c, r, pre) ==
    LET f == fr[c]
        v == GetVersionParse(r)
    IN
    /\ fr[c].pc = "await"
    /\ fr[c].at = "gate"
    /\ IF IsErr(r)
       THEN /\ sysVersion' = sysVersion
            /\ fr' = [fr EXCEPT ![c] =
                        IF f.op = "GetVersion" THEN Done(f, r)
                        ELSE Dispatch([f EXCEPT !.gate = "error"], entry,
                                      MethodReq(f, entry), "main", pre)]
       ELSE /\ sysVersion' = v.val
            /\ fr' = [fr EXCEPT ![c] =
                        IF f.op = "GetVersion" THEN Done(f, v)
                        ELSE Gated(f, entry, v.val, pre)]
    /\ UNCHANGED <<sessVars, entry, clusterVer, store>>

\* the response to the version lookup arrives: GetVersion caches the core
\* version, CompareWith compares, the gate decides
LookupReturn(c, r, pre) ==
    LET f == IF fr[c].op = "GetVersion" THEN [fr[c] EXCEPT !.listRet = r] ELSE fr[c]
        v == GetVersionParse(r)
    IN
    /\ fr[c].pc = "await"
    /\ fr[c].at = "gate"
    /\ IF IsErr(r)
       THEN /\ sysVersion' = sysVersion
            /\ fr' = [fr EXCEPT ![c] =
                        IF f.op = "GetVersion" THEN Done(f, r)
                        ELSE MethodReturn([f EXCEPT !.gate = "error"], r)]
       ELSE IF ~IsOk(v)
       THEN /\ sysVersion' = sysVersion
            /\ fr' = [fr EXCEPT ![c] = Done(f, v)]
       ELSE /\ sysVersion' = v.val
            /\ fr' = [fr EXCEPT ![c] =
                        IF f.op = "GetVersion" THEN Done(f, v)
                        ELSE Gated(f, entry, v.val, pre)]
    /\ UNCHANGED <<sessVars, entry, clusterVer, store>>

\* the server of the model answers the lookup with the cluster's version
LookupResponse(c, out, pre) ==
    LookupReturn(c, requestReturn(Versions.resourceType, "RecordSet", out,
                                  Serve(fr[c].reqs[Len(fr[c].reqs)], store, clusterVer)),
                 pre)

\* a server answers the lookup with any of VersionLists
VersionResponse(c, out, list, pre) ==
    LookupReturn(c, requestReturn(Versions.resourceType, "RecordSet", out,
                                  Reply(TRUE, "RecordSet", list, store)),
                 pre)

\* the response to the method's own request arrives
Response(c, out) ==
    LET f     == fr[c]
        reply == Serve(f.reqs[Len(f.reqs)], store, clusterVer)
        r     == requestReturn(entry.resourceType, Shape(f.meth), out, reply)
    IN
    /\ f.pc = "await"
    /\ f.at = "main"
    /\ store' = IF Reached(out) THEN reply.st ELSE store
    /\ fr' = [fr EXCEPT ![c] = Returned(f, entry, r)]
    /\ UNCHANGED <<sessVars, entry, clusterVer, sysVersion>>

\* the POST requests an operation dispatched
Posts(f) == Cardinality({i \in 1..Len(f.reqs) : f.reqs[i].verb = "POST"})

\* the operation returns to its caller
Finish(c) ==
    /\ fr[c].pc = "done"
    /\ fr' = [fr EXCEPT ![c] = IdleFrame]
    /\ UNCHANGED <<sessVars, entry, clusterVer, store, sysVersion>>

\* a third party creates or removes a record on the server
ServerMutation(rec) ==
    /\ \/ rec \in store /\ store' = store \ {rec}
       \/ rec \notin store /\ Cardinality(store) < MaxRecs /\ store' = store \cup {rec}
    /\ UNCHANGED <<sessVars, entry, clusterVer, sysVersion, fr>>

NoHistory == UNCHANGED <<prev, dirty>>

Next ==
    \/ \E c \in SeqCallers, params \in ParamSet : List(c, params) /\ NoHistory
    \/ \E c \in SeqCallers, params \in ParamSet : Get(c, params) /\ NoHistory
    \/ \E c \in SeqCallers, params \in ParamSet : Delete(c, params) /\ NoHistory
    \/ \E c \in SeqCallers, id \in IdArgs : GetById(c, id) /\ NoHistory
    \/ \E c \in SeqCallers, id \in IdArgs : DeleteById(c, id) /\ NoHistory
    \/ \E c \in SeqCallers, body \in BodySet : Create(c, body) /\ NoHistory
    \/ \E c \in SeqCallers, id \in IdArgs, body \in BodySet : Update(c, id, body) /\ NoHistory
    \/ \E c \in SeqCallers, name \in Names, body \in BodySet : Ensure(c, name, body) /\ NoHistory
    \/ \E c \in SeqCallers : GetVersion(c) /\ NoHistory
    \/ \E c \in SeqCallers, pre \in Pre : GateStep(c, pre) /\ NoHistory
    \/ \E c \in SeqCallers, pre \in Pre : GetVersionStep(c, pre) /\ NoHistory
    \/ \E c \in SeqCallers, out \in Outcomes, pre \in Pre : LookupResponse(c, out, pre) /\ NoHistory
    \/ \E c \in SeqCallers, out \in Outcomes : Response(c, out) /\ NoHistory
    \/ \E c \in SeqCallers : Finish(c) /\ NoHistory
    \/ \E rec \in InitRecs : ServerMutation(rec) /\ NoHistory

Spec == Init /\ [][Next]_vars

----------------------------------------------------------------------------
\* Consecutive Ensure calls of one caller, with the history of the previous
\* call kept: prev is the last Ensure that returned with no third-party change
\* of the store since it began

EnsureCall(c, name, body) ==
    /\ Ensure(c, name, body)
    /\ dirty' = FALSE
    /\ prev' = prev

EnsureStep(c) ==
    /\ \/ \E pre \in Pre : GateStep(c, pre)
       \/ \E out \in Outcomes, pre \in Pre : LookupResponse(c, out, pre)
       \/ \E out \in Outcomes : Response(c, out)
    /\ NoHistory

EnsureFinish(c) ==
    /\ Finish(c)
    /\ prev' = IF dirty THEN NoPrev
               ELSE [name |-> fr[c].name, ret |-> fr[c].ret, posts |-> Posts(fr[c])]
    /\ dirty' = dirty

ThirdParty(rec) ==
    /\ ServerMutation(rec)
    /\ dirty' = TRUE
    /\ prev' = NoPrev

NextEnsure ==
    \/ \E c \in SeqCallers, name \in Names, body \in BodySet : EnsureCall(c, name, body)
    \/ \E c \in SeqCallers : EnsureStep(c)
    \/ \E c \in SeqCallers : EnsureFinish(c)
    \/ \E rec \in InitRecs : ThirdParty(rec)

SpecEnsure == Init /\ [][NextEnsure]_vars

----------------------------------------------------------------------------
\* The block-host-mapping resource: Map, UnMap and EnsureMap, each ending in
\* VTasks.WaitTask on the task the bulk PATCH returned

HostIds == {1}

VolumeIds == {2}

\* task["messages"] as decoded: a list ([]interface{}) or a value of another type
Messages(items) == [list |-> TRUE, items |-> items]

NotAList == [list |-> FALSE, items |-> <<>>]

\* a task record as the server reports it
TaskRec(id, state, messages) ==
    [id |-> id, name |-> "task", state |-> state, messages |-> messages, rtype |-> NoTag]

\* what the server may answer to the bulk PATCH: a task with a numeric id, or
\* a record without one
BulkTasks ==
    {TaskRec(F(6), "running", Messages(<<>>)), TaskRec(NoId, "running", Messages(<<>>))}

\* what the server may report for the task on a poll
PollTasks ==
    { TaskRec(F(6), "completed", Messages(<<>>)), TaskRec(F(6), "COMPLETED", Messages(<<>>)),
      TaskRec(F(6), "running", Messages(<<>>)), TaskRec(F(6), "Running", Messages(<<>>)),
      TaskRec(F(6), "failed", Messages(<<"m1", "m2">>)), TaskRec(F(6), "failed", Messages(<<>>)),
      TaskRec(F(6), "failed", NotAList), TaskRec(<<"string", 3>>, "completed", Messages(<<>>)) }

InitMap ==
    /\ entry = BlockHostMappings
    /\ clusterVer \in RawVersions
    /\ store \in {S \in SUBSET InitRecs : Cardinality(S) <= MaxRecs}
    /\ sysVersion = NoVersion
    /\ fr = [c \in Callers |-> IdleFrame]
    /\ prev = NoPrev
    /\ dirty = FALSE
    /\ SessInit

\* Map builds its body and goes straight to request[Record]
Map(c, hostId, volumeId) ==
    Start(c, [Enter("Map", "Bulk", NilParams, "", 0,
                    PairsBody("pairs_to_add", hostId, volumeId)) EXCEPT !.pc = "bulk"])

UnMap(c, hostId, volumeId) ==
    Start(c, [Enter("UnMap", "Bulk", NilParams, "", 0,
                    PairsBody("pairs_to_remove", hostId, volumeId)) EXCEPT !.pc = "bulk"])

\* EnsureMap begins with bhm.Get(ctx, Params{"volume__id": ..., "block_host__id": ...})
EnsureMap(c, hostId, volumeId) ==
    Start(c, Enter("EnsureMap", "Get",
                   P({<<"volume__id", volumeId>>, <<"block_host__id", hostId>>}),
                   "", 0, NilParams))

\* Map / UnMap hand the bulk PATCH to request[Record]; no gate check precedes it
BulkStep(c, pre) ==
    /\ fr[c].pc = "bulk"
    /\ fr' = [fr EXCEPT ![c] = Dispatch(fr[c], entry, BulkReq(fr[c], entry), "bulk", pre)]
    /\ UNCHANGED <<sessVars, entry, clusterVer, store, sysVersion>>

\* the response to the bulk PATCH arrives: the task the server started
BulkResponse(c, out, tk) ==
    LET f == fr[c]
        r == requestReturn(entry.resourceType, "Record", out, Reply(TRUE, "Record", tk, store))
    IN
    /\ f.pc = "await"
    /\ f.at = "bulk"
    /\ fr' = [fr EXCEPT ![c] = Returned(f, entry, r)]
    /\ UNCHANGED <<sessVars, entry, clusterVer, store, sysVersion>>

\* WaitTask fetches the task: VTasks.GetById, whose gate check passes without
\* a lookup (vtasks declares no minimum version)
PollStep(c, pre) ==
    /\ fr[c].pc = "poll"
    /\ VTasks.availableFromVersion = NoVersion
    /\ fr' = [fr EXCEPT ![c] = Dispatch(fr[c], VTasks, PollReq(fr[c]), "poll", pre)]
    /\ UNCHANGED <<sessVars, entry, clusterVer, store, sysVersion>>

\* the response to a task fetch arrives
PollResponse(c, out, tk) ==
    LET f == fr[c]
        r == requestReturn(VTasks.resourceType, "Record", out, Reply(TRUE, "Record", tk, store))
    IN
    /\ f.pc = "await"
    /\ f.at = "poll"
    /\ fr' = [fr EXCEPT ![c] = Returned(f, VTasks, r)]
    /\ UNCHANGED <<sessVars, entry, clusterVer, store, sysVersion>>

NextMap ==
    \/ \E c \in SeqCallers, h \in HostIds, v \in VolumeIds : Map(c, h, v) /\ NoHistory
    \/ \E c \in SeqCallers, h \in HostIds, v \in VolumeIds : UnMap(c, h, v) /\ NoHistory
    \/ \E c \in SeqCallers, h \in HostIds, v \in VolumeIds : EnsureMap(c, h, v) /\ NoHistory
    \/ \E c \in SeqCallers, pre \in Pre : GateStep(c, pre) /\ NoHistory
    \/ \E c \in SeqCallers, out \in Outcomes, pre \in Pre : LookupResponse(c, out, pre) /\ NoHistory
    \/ \E c \in SeqCallers, out \in Outcomes : Response(c, out) /\ NoHistory
    \/ \E c \in SeqCallers, pre \in Pre : BulkStep(c, pre) /\ NoHistory
    \/ \E c \in SeqCallers, out \in Outcomes, tk \in BulkTasks : BulkResponse(c, out, tk) /\ NoHistory
    \/ \E c \in SeqCallers, pre \in Pre : PollStep(c, pre) /\ NoHistory
    \/ \E c \in SeqCallers, out \in Outcomes, tk \in PollTasks : PollResponse(c, out, tk) /\ NoHistory
    \/ \E c \in SeqCallers : Finish(c) /\ NoHistory

SpecMap == InitMap /\ [][NextMap]_vars

----------------------------------------------------------------------------
\* VTasks.WaitTask called on its own

TaskIds == {6}

InitWait ==
    /\ entry = VTasks
    /\ clusterVer = <<5, 3, 0, 12>>
    /\ store = {}
    /\ sysVersion = NoVersion
    /\ fr = [c \in Callers |-> IdleFrame]
    /\ prev = NoPrev
    /\ dirty = FALSE
    /\ SessInit

\* WaitTask(ctx, taskId): retries := 30, then the loop
WaitTask(c, taskId) ==
    Start(c, [Enter("WaitTask", "GetById", NilParams, "", taskId, NilParams)
                 EXCEPT !.pc = "poll", !.retries = WaitTaskRetries])

NextWait ==
    \/ \E c \in SeqCallers, id \in TaskIds : WaitTask(c, id) /\ NoHistory
    \/ \E c \in SeqCallers, pre \in Pre : PollStep(c, pre) /\ NoHistory
    \/ \E c \in SeqCallers, out \in Outcomes, tk \in PollTasks : PollResponse(c, out, tk) /\ NoHistory
    \/ \E c \in SeqCallers : Finish(c) /\ NoHistory

SpecWait == InitWait /\ [][NextWait]_vars

\* WaitTask's loop is sequential code that sleeps for a bounded time between
\* two fetches, so its next fetch is always started; that a fetch under way
\* returns is what the caller's environment provides
SpecWaitFair ==
    /\ SpecWait
    /\ WF_vars(\E c \in SeqCallers, pre \in Pre : PollStep(c, pre) /\ NoHistory)
    /\ WF_vars(\E c \in SeqCallers, out \in Outcomes, tk \in PollTasks :
                  PollResponse(c, out, tk) /\ NoHistory)

----------------------------------------------------------------------------
\* The version cache over the life of the process: the client in use may be
\* replaced by one connected to another cluster (sysVersion is a package
\* variable, shared by every client of the process)

\* a client connected to a cluster reporting version ver takes over
SwitchCluster(ver) ==
    /\ ver # clusterVer
    /\ clusterVer' = ver
    /\ UNCHANGED <<sessVars, entry, store, sysVersion, fr>>

NextCache ==
    \/ \E c \in SeqCallers : GetVersion(c) /\ NoHistory
    \/ \E c \in SeqCallers, params \in ParamSet : List(c, params) /\ NoHistory
    \/ \E c \in SeqCallers, params \in ParamSet : Delete(c, params) /\ NoHistory
    \/ \E c \in SeqCallers, id \in IdArgs : GetById(c, id) /\ NoHistory
    \/ \E c \in SeqCallers, body \in BodySet : Create(c, body) /\ NoHistory
    \/ \E c \in SeqCallers, pre \in Pre : GateStep(c, pre) /\ NoHistory
    \/ \E c \in SeqCallers, pre \in Pre : GetVersionStep(c, pre) /\ NoHistory
    \/ \E c \in SeqCallers, out \in Outcomes, pre \in Pre : LookupResponse(c, out, pre) /\ NoHistory
    \/ \E c \in SeqCallers, out \in Outcomes : Response(c, out) /\ NoHistory
    \/ \E c \in SeqCallers : Finish(c) /\ NoHistory
    \/ \E ver \in RawVersions : SwitchCluster(ver) /\ NoHistory

SpecCache == Init /\ [][NextCache]_vars

----------------------------------------------------------------------------
\* Params.Update called on its own

\* the keys and values of the maps merged
MergeKeys == {"name", "path"}

MergeVals == {"a", "b"}

\* every map over MergeKeys, and the nil map
MergeMaps ==
    {NilParams} \cup
    {P({<<k, f[k]>> : k \in K}) : f \in [MergeKeys -> MergeVals], K \in SUBSET MergeKeys}

\* pr.Update(other, override)
UpdateParams(pr, other, override) ==
    /\ call' = [fn |-> "Params.Update", pr |-> pr, other |-> other, override |-> override,
                out |-> ParamsUpdate(pr, other, override)]
    /\ UNCHANGED <<auth, mu, now, sc, hist, entry, clusterVer, store, sysVersion, fr, prev, dirty>>

InitParams ==
    /\ entry = Views
    /\ clusterVer = <<5, 3, 0, 12>>
    /\ store = {}
    /\ sysVersion = NoVersion
    /\ fr = [c \in Callers |-> IdleFrame]
    /\ prev = NoPrev
    /\ dirty = FALSE
    /\ SessInit

NextParams ==
    \E pr \in MergeMaps, other \in MergeMaps, override \in BOOLEAN :
        UpdateParams(pr, other, override)

SpecParams == InitParams /\ [][NextParams]_vars

----------------------------------------------------------------------------
\* GetVersion and the gate's lookup against a server whose status query may
\* yield any of VersionLists

NextVersion ==
    \/ \E c \in SeqCallers : GetVersion(c) /\ NoHistory
    \/ \E c \in SeqCallers, params \in ParamSet : List(c, params) /\ NoHistory
    \/ \E c \in SeqCallers, pre \in Pre : GetVersionStep(c, pre) /\ NoHistory
    \/ \E c \in SeqCallers, pre \in Pre : GateStep(c, pre) /\ NoHistory
    \/ \E c \in SeqCallers, out \in Outcomes, list \in VersionLists, pre \in Pre :
            VersionResponse(c, out, list, pre) /\ NoHistory
    \/ \E c \in SeqCallers, out \in Outcomes : Response(c, out) /\ NoHistory
    \/ \E c \in SeqCallers : Finish(c) /\ NoHistory

SpecVersion == Init /\ [][NextVersion]_vars

----------------------------------------------------------------------------
\* GetVersion called by several goroutines: sysVersion is a package variable
\* read and written without synchronisation

\* what an unsynchronised read of sysVersion may yield: the pointer stored
\* last, or still the nil it held at the start
RacyRead(cached) == {NoVersion, cached}

\* `if sysVersion != nil { return sysVersion, nil }`, else v.List
GetVersionCheck(c, seen, pre) ==
    /\ fr[c].pc = "gate"
    /\ fr[c].op = "GetVersion"
    /\ seen \in RacyRead(sysVersion)
    /\ fr' = [fr EXCEPT ![c] =
                IF seen # NoVersion
                THEN Done([fr[c] EXCEPT !.cacheRead = TRUE], Ok("Version", seen))
                ELSE Dispatch([fr[c] EXCEPT !.cacheRead = TRUE], entry, VersionReq, "gate", pre)]
    /\ UNCHANGED <<sessVars, entry, clusterVer, store, sysVersion>>

\* the lookup returns: its error is returned, or `sysVersion =
\* clusterVersion.Core()` is executed
GetVersionStore(c, out) ==
    LET r == requestReturn(Versions.resourceType, "RecordSet", out,
                           Serve(fr[c].reqs[Len(fr[c].reqs)], store, clusterVer))
        v == GetVersionParse(r)
        f == [fr[c] EXCEPT !.listRet = r]
    IN
    /\ fr[c].pc = "await"
    /\ fr[c].at = "gate"
    /\ fr[c].op = "GetVersion"
    /\ IF IsErr(r)
       THEN /\ sysVersion' = sysVersion
            /\ fr' = [fr EXCEPT ![c] = Done(f, r)]
       ELSE IF ~IsOk(v)
       THEN /\ sysVersion' = sysVersion
            /\ fr' = [fr EXCEPT ![c] = Done(f, v)]
       ELSE /\ sysVersion' = v.val
            /\ fr' = [fr EXCEPT ![c] = [f EXCEPT !.pc = "stored"]]
    /\ UNCHANGED <<sessVars, entry, clusterVer, store>>

\* `return sysVersion, nil` reads the variable again: the caller's own store,
\* or a store another caller has made since
GetVersionReadBack(c) ==
    /\ fr[c].pc = "stored"
    /\ fr' = [fr EXCEPT ![c] = Done(fr[c], Ok("Version", sysVersion))]
    /\ UNCHANGED <<sessVars, entry, clusterVer, store, sysVersion>>

NextRace ==
    \/ \E c \in Callers : GetVersion(c) /\ NoHistory
    \/ \E c \in Callers, seen \in RacyRead(sysVersion), pre \in Pre :
            GetVersionCheck(c, seen, pre) /\ NoHistory
    \/ \E c \in Callers, out \in Outcomes : GetVersionStore(c, out) /\ NoHistory
    \/ \E c \in Callers : GetVersionReadBack(c) /\ NoHistory
    \/ \E c \in Callers : Finish(c) /\ NoHistory

SpecRace == Init /\ [][NextRace]_vars

----------------------------------------------------------------------------
\* Ensure called by several goroutines on one resource entry

\* the two goroutines
EnsurePair == {1, 2}

\* views declare no minimum version, so the gate passes without a lookup
InitEnsureRace ==
    /\ entry = Views
    /\ clusterVer = <<5, 3, 0, 12>>
    /\ store \in {S \in SUBSET InitRecs : Cardinality(S) <= MaxRecs}
    /\ sysVersion = NoVersion
    /\ fr = [c \in Callers |-> IdleFrame]
    /\ prev = NoPrev
    /\ dirty = FALSE
    /\ SessInit

NextEnsureRace ==
    \/ \E c \in EnsurePair, name \in Names, body \in BodySet : Ensure(c, name, body) /\ NoHistory
    \/ \E c \in EnsurePair, pre \in Pre : GateStep(c, pre) /\ NoHistory
    \/ \E c \in EnsurePair, out \in Outcomes : Response(c, out) /\ NoHistory
    \/ \E c \in EnsurePair : Finish(c) /\ NoHistory

SpecEnsureRace == InitEnsureRace /\ [][NextEnsureRace]_vars

----------------------------------------------------------------------------
\* The session: request[T] over VMSSession with the JWT authenticator

\* a resource method calls request[T] for a result of the given shape
RequestCall(c, shape) ==
    /\ sc[c].pc = "idle"
    /\ sc' = [sc EXCEPT ![c] = [SessIdle EXCEPT !.pc = "before", !.shape = shape]]
    /\ UNCHANGED <<call, entry, clusterVer, store, sysVersion, fr, prev, dirty, auth, mu, now, hist>>

\* doBeforeRequest runs the before-request hook
BeforeHook(c, hookErr) ==
    /\ sc[c].pc = "before"
    /\ sc' = [sc EXCEPT ![c] = requestAfterBefore(@, doBeforeRequest(hookErr))]
    /\ UNCHANGED <<call, entry, clusterVer, store, sysVersion, fr, prev, dirty, auth, mu, now, hist>>

\* Authorize takes the lock and decides: the token is fresh (return nil), the
\* token is to be refreshed or acquired (the exchange request leaves, the lock
\* stays held), or auth.Token is nil although initialized (panic)
AuthorizeEnter(c) ==
    /\ sc[c].pc = "lock"
    /\ CanLock(mu)
    /\ LET b == AuthorizeBranch(auth, now)
           f == sc[c]
       IN  /\ sc' = [sc EXCEPT ![c] =
                       CASE b = "fault"   -> SessDone(f, Panic("nil pointer dereference"))
                         [] b = "fresh"   -> doRequestAfterHeaders(f, "nil")
                         [] b = "refresh" -> [f EXCEPT !.pc = "exchange", !.kind = b,
                                                       !.exReq = refreshToken(auth, Config),
                                                       !.ref = @ + 1]
                         [] OTHER         -> [f EXCEPT !.pc = "exchange", !.kind = b,
                                                       !.exReq = acquireToken(auth, Config),
                                                       !.acq = @ + 1]]
           /\ mu' = IF b \in {"refresh", "acquire"} THEN c ELSE mu
           /\ hist' = [hist EXCEPT !.began = TRUE,
                                   !.acqs = IF b = "acquire" THEN @ + 1 ELSE @]
    /\ UNCHANGED <<call, entry, clusterVer, store, sysVersion, fr, prev, dirty, auth, now>>

\* the exchange comes back: initialized is set after acquireToken whatever it
\* returned, then validateResponse, parseToken, auth.Token = token, Unlock
ExchangeResponse(c, response) ==
    /\ sc[c].pc = "exchange"
    /\ LET v    == validateResponse(response)
           p    == parseToken(response, sc[c].kind, now)
           err  == IF v.err # "nil" THEN v.err ELSE p.err
           f    == [sc[c] EXCEPT !.exResp = response, !.exReq = NoExchange]
       IN  /\ auth' = [initialized |-> IF sc[c].kind = "acquire" THEN TRUE ELSE auth.initialized,
                       Token       |-> IF err = "nil" THEN p.tok ELSE auth.Token]
           /\ hist' = IF err = "nil" THEN [hist EXCEPT !.lastIssue = now]
                      ELSE [hist EXCEPT !.failed = TRUE]
           /\ sc' = [d \in Callers |->
                       IF d = c THEN doRequestAfterHeaders(f, err)
                       ELSE IF sc[d].pc = "lock" /\ err = "nil"
                       THEN [sc[d] EXCEPT !.waited = TRUE]
                       ELSE sc[d]]
    /\ mu' = NoHolder
    /\ UNCHANGED <<call, entry, clusterVer, store, sysVersion, fr, prev, dirty, now>>

\* SetAuthHeader reads auth.Token.Access outside the lock; client.Do sends the
\* request
Header(c) ==
    /\ sc[c].pc = "header"
    /\ sc' = [sc EXCEPT ![c] = [@ EXCEPT !.pc = "http", !.sent = TRUE,
                                         !.hdr = auth.Token.Access]]
    /\ UNCHANGED <<call, entry, clusterVer, store, sysVersion, fr, prev, dirty, auth, mu, now, hist>>

\* the response of the resource request
HttpResponse(c, response) ==
    /\ sc[c].pc = "http"
    /\ sc' = [sc EXCEPT ![c] = requestAfterHttp(@, response, entry.resourceType)]
    /\ UNCHANGED <<call, entry, clusterVer, store, sysVersion, fr, prev, dirty, auth, mu, now, hist>>

\* doAfterRequest runs the after-request hook; request[T] returns
\* interceptedResult.(T)
AfterHook(c, hook) ==
    /\ sc[c].pc = "after"
    /\ sc' = [sc EXCEPT ![c] =
                SessDone([@ EXCEPT !.hook = hook, !.afterCalls = @ + 1,
                                   !.trace = Append(@, "after")],
                         assertT(sc[c].shape, doAfterRequest(sc[c].afterArg, hook)))]
    /\ UNCHANGED <<call, entry, clusterVer, store, sysVersion, fr, prev, dirty, auth, mu, now, hist>>

\* the caller has its result
SessReturn(c) ==
    /\ sc[c].pc = "done"
    /\ sc' = [sc EXCEPT ![c] = SessIdle]
    /\ UNCHANGED <<call, entry, clusterVer, store, sysVersion, fr, prev, dirty, auth, mu, now, hist>>

\* a caller between two network waits takes no time on the scale of minutes
Busy(c) ==
    \/ sc[c].pc \in {"before", "header", "after"}
    \/ sc[c].pc = "lock" /\ CanLock(mu)

\* a minute passes
Tick ==
    /\ now + TickStep <= MaxClock
    /\ \A c \in SessCallers : ~Busy(c)
    /\ now' = now + TickStep
    /\ UNCHANGED <<call, entry, clusterVer, store, sysVersion, fr, prev, dirty, auth, mu, sc, hist>>

\* a session on its own: one resource entry over an empty cluster
InitSession ==
    /\ entry = Views
    /\ clusterVer = <<5, 3, 0, 12>>
    /\ store = {}
    /\ sysVersion = NoVersion
    /\ fr = [c \in Callers |-> IdleFrame]
    /\ prev = NoPrev
    /\ dirty = FALSE
    /\ SessInit

NextSession ==
    \/ \E c \in SessCallers, shape \in Shapes : RequestCall(c, shape)
    \/ \E c \in SessCallers, hookErr \in {"nil", "hook"} : BeforeHook(c, hookErr)
    \/ \E c \in SessCallers : AuthorizeEnter(c)
    \/ \E c \in SessCallers, response \in ExchangeResps : ExchangeResponse(c, response)
    \/ \E c \in SessCallers : Header(c)
    \/ \E c \in SessCallers, response \in HttpResps : HttpResponse(c, response)
    \/ \E c \in SessCallers, hook \in Hooks : AfterHook(c, hook)
    \/ \E c \in SessCallers : SessReturn(c)
    \/ Tick

SpecSession == InitSession /\ [][NextSession]_vars

----------------------------------------------------------------------------
\* The exchange authenticator on its own: callers of Authorize over a longer
\* stretch of time

\* Authorize(s) is called
AuthorizeCall(c) ==
    /\ sc[c].pc = "idle"
    /\ sc' = [sc EXCEPT ![c] = [SessIdle EXCEPT !.pc = "lock"]]
    /\ UNCHANGED <<call, entry, clusterVer, store, sysVersion, fr, prev, dirty, auth, mu, now, hist>>

\* Authorize has returned nil or its error, or has faulted
AuthorizeReturn(c) ==
    /\ sc[c].pc \in {"header", "done"}
    /\ sc' = [sc EXCEPT ![c] = SessIdle]
    /\ UNCHANGED <<call, entry, clusterVer, store, sysVersion, fr, prev, dirty, auth, mu, now, hist>>

\* minutes pass
TickAuth ==
    /\ now + TickStep <= MaxAuthClock
    /\ \A c \in SessCallers : ~Busy(c)
    /\ now' = now + TickStep
    /\ UNCHANGED <<call, entry, clusterVer, store, sysVersion, fr, prev, dirty, auth, mu, sc, hist>>

NextAuth ==
    \/ \E c \in SessCallers : AuthorizeCall(c)
    \/ \E c \in SessCallers : AuthorizeEnter(c)
    \/ \E c \in SessCallers, response \in ExchangeResps : ExchangeResponse(c, response)
    \/ \E c \in SessCallers : AuthorizeReturn(c)
    \/ TickAuth

SpecAuth == InitSession /\ [][NextAuth]_vars

----------------------------------------------------------------------------
\* Where the requests of a session go

\* the port of an https URL that names none
HttpsPort == 443

\* configurations: two hosts, the default port and two others
Configs ==
    {[Host |-> h, Port |-> p, ApiVersion |-> "v5"] :
        h \in {"vms.example", "10.0.0.7"}, p \in {HttpsPort, 8443, 9443}}

\* the host and the port a request for the URL connects to
Address(url) == <<url.Host, IF url.Port = NoUrl.Port THEN HttpsPort ELSE url.Port>>

\* the tokens an authenticator may hold when it refreshes
HeldTokens == {Token(k, t) : k \in {"acquire", "refresh"}, t \in {0, TickStep, TokenRefreshTime}}

\* acquireToken builds its request
AcquireUrl(config) ==
    /\ call' = [fn |-> "acquireToken", config |-> config,
                url |-> acquireToken(NoAuth, config).url,
                body |-> acquireToken(NoAuth, config).body]
    /\ UNCHANGED <<auth, mu, now, sc, hist, entry, clusterVer, store, sysVersion, fr, prev, dirty>>

\* refreshToken builds its request
RefreshUrl(config, tok) ==
    /\ call' = [fn |-> "refreshToken", config |-> config,
                url |-> refreshToken([initialized |-> TRUE, Token |-> tok], config).url,
                body |-> refreshToken([initialized |-> TRUE, Token |-> tok], config).body]
    /\ UNCHANGED <<auth, mu, now, sc, hist, entry, clusterVer, store, sysVersion, fr, prev, dirty>>

\* buildUrl builds the URL of a resource request
ResourceUrl(config, e, query) ==
    /\ call' = [fn |-> "buildUrl", config |-> config,
                url |-> buildUrl(config, Path(e.resourcePath, <<>>), query, e.apiVersion),
                body |-> NoExchange.body]
    /\ UNCHANGED <<auth, mu, now, sc, hist, entry, clusterVer, store, sysVersion, fr, prev, dirty>>

NextAddress ==
    \/ \E config \in Configs : AcquireUrl(config)
    \/ \E config \in Configs, tok \in HeldTokens : RefreshUrl(config, tok)
    \/ \E config \in Configs, e \in {Views, Volumes, Versions, VTasks}, params \in ParamSet :
            ResourceUrl(config, e, ToQuery(params))

SpecAddress == InitParams /\ [][NextAddress]_vars

----------------------------------------------------------------------------
\* Properties

\* the requests of verb an operation handed to the dispatcher, in order
RECURSIVE ReqsOf(_, _)
ReqsOf(reqs, verb) ==
    IF reqs = <<>> THEN <<>>
    ELSE (IF Head(reqs).verb = verb THEN <<Head(reqs)>> ELSE <<>>) \o ReqsOf(Tail(reqs), verb)

\* request a is request b as handed over, gone out to some URL
SentAs(a, b) == [a EXCEPT !.url = NoUrl] = [b EXCEPT !.sent = TRUE]

NoReq(f, verb) == \A i \in 1..Len(f.reqs) : f.reqs[i].verb # verb

\* the requests addressed to the resource's own path
OwnReqs(f) == {i \in 1..Len(f.reqs) : f.reqs[i].path.base = entry.resourcePath}

\* Get's list request returned a record set of n records
Listed(f, n) == IsOk(f.listRet) /\ Len(f.listRet.val) = n

\* the integer a decoded id stands for: a float64 by its integer part
Denotes(id, n) ==
    IF id[1] = "float64" THEN 2 * n <= id[2] /\ id[2] < 2 * n + 2 ELSE n = id[2]

StrictlyLess(a, b) ==
    \/ a[1] < b[1]
    \/ a[1] = b[1] /\ a[2] < b[2]
    \/ a[1] = b[1] /\ a[2] = b[2] /\ a[3] < b[3]

CrudOps == {"List", "Get", "GetById", "Create", "Update", "Delete", "DeleteById", "Ensure"}

\* C1: Get whose list request succeeded returns a not-found error carrying the
\* resource path and the query the request was sent with on zero records, the
\* record itself on exactly one, and an ambiguous error (no not-found error)
\* with the same path and query on two or more.
C1_GetExactlyOne ==
    \A c \in Callers :
        LET f == fr[c] IN
        (f.op = "Get" /\ IsOk(f.listRet)) =>
            /\ f.pc = "done"
            /\ Len(f.reqs[Len(f.reqs)].query) = (IF f.params.nil THEN 0 ELSE Cardinality(f.params.kv))
            /\ Listed(f, 0) =>
                   /\ isNotFoundErr(f.ret)
                   /\ f.ret.Resource = entry.resourcePath
                   /\ f.ret.Query = f.reqs[Len(f.reqs)].query
            /\ Listed(f, 1) => f.ret = Ok("Record", f.listRet.val[1])
            /\ Len(f.listRet.val) >= 2 =>
                   /\ IsErr(f.ret) /\ f.ret.err = "ambiguous" /\ ~isNotFoundErr(f.ret)
                   /\ f.ret.Resource = entry.resourcePath
                   /\ f.ret.Query = f.reqs[Len(f.reqs)].query

\* C1 witness: a Get by name against two matching records ended ambiguous
C1_Witness ==
    LET f == fr[1] IN
    /\ f.pc = "done" /\ f.op = "Get" /\ Listed(f, 2)
    /\ f.params = P({<<"name", "a">>})
    /\ f.ret = AmbiguousError(entry.resourcePath, << <<"name", "a">> >>)

\* C2: Delete whose Get reported not-found returns an empty record with no
\* error and has handed no DELETE request to the dispatcher.
C2_DeleteAbsentIsNoOp ==
    \A c \in Callers :
        LET f == fr[c] IN
        (f.op = "Delete" /\ isNotFoundErr(f.getRet)) =>
            /\ f.pc = "done"
            /\ f.ret = EmptyRecord
            /\ NoReq(f, "DELETE")

\* C2 witness: a Delete by name of an absent record returned
C2_Witness ==
    LET f == fr[1] IN
    /\ f.pc = "done" /\ f.op = "Delete" /\ isNotFoundErr(f.getRet)
    /\ Matches(store, ToQuery(f.params)) = {}
    /\ f.ret = EmptyRecord

\* C3: Delete whose Get matched exactly one record: with an id of type int64,
\* float64 or int it hands exactly one DELETE to the dispatcher, addressed to
\* {resourcePath}/{id} (a float64 id by its integer part), and that request
\* goes out unless its before-hook or authorization fails; with no id field or
\* an id of another type it returns an error and hands over no DELETE.
C3_DeleteByMatchedId ==
    \A c \in Callers :
        LET f    == fr[c]
            id   == f.getRet.val.id
            dels == ReqsOf(f.reqs, "DELETE")
        IN
        (f.op = "Delete" /\ IsOk(f.getRet)) =>
            IF id[1] \in {"int64", "float64", "int"}
            THEN /\ f.pc = "gate" => dels = <<>>
                 /\ f.pc \in {"await", "done"} =>
                        /\ Len(dels) = 1
                        /\ dels[1].path.base = entry.resourcePath
                        /\ Len(dels[1].path.sub) = 1
                        /\ Denotes(id, dels[1].path.sub[1])
                        /\ ~dels[1].sent => f.ret \in {Error("hook"), Error("auth")}
            ELSE /\ f.pc = "done"
                 /\ IsErr(f.ret)
                 /\ dels = <<>>

\* C3 witness: Delete matched the record of id 7.0 and its DELETE to
\* {resourcePath}/7 was carried out
C3_Witness ==
    LET f == fr[1] IN
    /\ f.pc = "done" /\ f.op = "Delete" /\ IsOk(f.getRet)
    /\ f.getRet.val.id = F(14)
    /\ Len(ReqsOf(f.reqs, "DELETE")) = 1
    /\ SentAs(ReqsOf(f.reqs, "DELETE")[1],
              Req("DELETE", Path(entry.resourcePath, <<7>>), <<>>, NilParams, "op"))
    /\ f.ret = EmptyRecord

\* C4: Delete or Ensure whose Get matched more than one record returns an
\* error and hands no DELETE, POST or PATCH to the dispatcher.
C4_AmbiguousIsFatal ==
    \A c \in Callers :
        LET f == fr[c] IN
        (f.op \in {"Delete", "Ensure"} /\ IsOk(f.listRet) /\ Len(f.listRet.val) >= 2) =>
            /\ f.pc = "done"
            /\ IsErr(f.ret) /\ f.ret.err = "ambiguous"
            /\ NoReq(f, "DELETE") /\ NoReq(f, "POST") /\ NoReq(f, "PATCH")

\* C4 witness: an Ensure by a name two records carry ended with the error
C4_Witness ==
    LET f == fr[1] IN
    /\ f.pc = "done" /\ f.op = "Ensure" /\ Listed(f, 2)
    /\ IsErr(f.ret)
    /\ Len(f.reqs) >= 1

\* C5: an Ensure that follows a successful Ensure of the same name, with no
\* third-party change of the store since that one began, hands no POST to the
\* dispatcher and, when it succeeds, returns the same record; the earlier call
\* handed over at most one POST.
C5_EnsureIdempotent ==
    \A c \in Callers :
        LET f == fr[c] IN
        /\ f.op = "Ensure" => Len(ReqsOf(f.reqs, "POST")) <= 1
        /\ (f.op = "Ensure" /\ IsOk(prev.ret) /\ prev.name = f.name /\ ~dirty) =>
                /\ prev.posts <= 1
                /\ NoReq(f, "POST")
                /\ (f.pc = "done" /\ IsOk(f.ret)) => f.ret = prev.ret

\* C5 witness: the first Ensure created the record, the second one returned it
C5_Witness ==
    LET f == fr[1] IN
    /\ f.pc = "done" /\ f.op = "Ensure" /\ ~dirty
    /\ IsOk(prev.ret) /\ prev.name = f.name /\ prev.posts = 1
    /\ f.ret = prev.ret
    /\ NoReq(f, "POST")

\* C6: Ensure whose lookup found exactly one record returns that record and
\* hands no POST and no PATCH to the dispatcher; Ensure whose lookup failed
\* with an error other than not-found returns that error and hands over no POST.
C6_EnsureFoundUnchanged ==
    \A c \in Callers :
        LET f == fr[c] IN
        /\ (f.op = "Ensure" /\ Listed(f, 1)) =>
                /\ f.pc = "done"
                /\ f.ret = Ok("Record", f.listRet.val[1])
                /\ NoReq(f, "POST") /\ NoReq(f, "PATCH")
        /\ (f.op = "Ensure" /\ IsErr(f.getRet) /\ ~isNotFoundErr(f.getRet)) =>
                /\ f.pc = "done"
                /\ f.ret = f.getRet
                /\ NoReq(f, "POST")

\* C6 witness: Ensure with a body naming "b" found the one record named "a"
\* and returned it as the server holds it
C6_Witness ==
    LET f == fr[1] IN
    /\ f.pc = "done" /\ f.op = "Ensure" /\ Listed(f, 1)
    /\ f.name = "a" /\ f.given = P({<<"name", "b">>, <<"path", "x">>})
    /\ IsOk(f.ret) /\ f.ret.val.name = "a"
    /\ \E r \in store : f.ret.val = Tag(r, entry.resourceType)

\* C7: Ensure whose lookup reported not-found hands exactly one POST to the
\* base path to the dispatcher, its body the supplied body with "name" set to
\* the given name, and returns what Create returned.
C7_EnsureCreatesOnce ==
    \A c \in Callers :
        LET f     == fr[c]
            posts == ReqsOf(f.reqs, "POST")
        IN
        (f.op = "Ensure" /\ f.pc = "done" /\ isNotFoundErr(f.getRet)) =>
            /\ Len(posts) = 1
            /\ posts[1].path = Path(entry.resourcePath, <<>>)
            /\ posts[1].body.kv =
                  {e \in f.given.kv : e[1] # "name"} \cup {<<"name", f.name>>}
            /\ f.ret.kind \in {"ok", "err"}
            /\ IsOk(f.ret) => f.ret.val.name = f.name

\* C7 for a body that is a map: the same statement, nil bodies left aside
C7_EnsureCreatesOnce_MapBody ==
    \A c \in Callers :
        LET f     == fr[c]
            posts == ReqsOf(f.reqs, "POST")
        IN
        (f.op = "Ensure" /\ f.pc = "done" /\ isNotFoundErr(f.getRet) /\ ~f.given.nil) =>
            /\ Len(posts) = 1
            /\ posts[1].path = Path(entry.resourcePath, <<>>)
            /\ posts[1].body.kv =
                  {e \in f.given.kv : e[1] # "name"} \cup {<<"name", f.name>>}
            /\ f.ret.kind \in {"ok", "err"}
            /\ IsOk(f.ret) => f.ret.val.name = f.name

\* C7 witness: Ensure("a", nil) found no record named "a", faulted on the nil
\* body and handed over no POST
C7_Witness ==
    LET f == fr[1] IN
    /\ f.pc = "done" /\ f.op = "Ensure" /\ f.name = "a" /\ f.given = NilParams
    /\ isNotFoundErr(f.getRet)
    /\ Matches(store, << <<"name", "a">> >>) = {}
    /\ f.ret = Panic("assignment to entry in nil map")
    /\ NoReq(f, "POST")

\* C8: on a resource declared with the dummy version (no minimum) no CRUD
\* operation reads the version cache or issues a version lookup.
C8_NoMinimumNoLookup ==
    \A c \in Callers :
        LET f == fr[c] IN
        (Declared(entry.resourcePath) = dummyClusterVersion /\ f.op \in CrudOps) =>
            /\ ~f.cacheRead
            /\ \A i \in 1..Len(f.reqs) :
                    f.reqs[i].by # "gate" /\ f.reqs[i].path.base # Versions.resourcePath

\* C8 witness: a Delete on views ran both its gate checks, with the cache
\* filled, and sent its two requests
C8_Witness ==
    LET f == fr[1] IN
    /\ Declared(entry.resourcePath) = dummyClusterVersion
    /\ sysVersion # NoVersion
    /\ f.pc = "done" /\ f.op = "Delete" /\ Len(f.reqs) = 2 /\ f.gate = "pass"

\* C9: on a resource with a declared minimum, a gate check that obtained the
\* cluster version rejects iff the cluster's core version is strictly less
\* than the minimum, and the rejected operation returns the
\* version-incompatible error naming resource, cluster version and minimum.
C9_RejectIffOlder ==
    \A c \in Callers :
        LET f   == fr[c]
            min == Declared(entry.resourcePath)
        IN
        (min # dummyClusterVersion /\ f.op \in CrudOps) =>
            /\ f.gate = "reject" => StrictlyLess(clusterVer, min)
            /\ f.gate = "pass" => ~StrictlyLess(clusterVer, min)
            /\ f.gate = "reject" <=>
                  /\ f.pc = "done"
                  /\ f.ret = VersionError(entry.resourceType, SubSeq(clusterVer, 1, 3), min)
            /\ (f.gate = "none" /\ f.pc # "idle") =>
                  /\ f.pc \in {"gate", "await"}
                  /\ Len(f.reqs) <= 1
                  /\ Len(f.reqs) = 1 => SentAs(f.reqs[1], VersionReq)

\* C9 witness: the cluster reports exactly the minimum (5.3.0 with a build
\* qualifier) and the operation went through
C9_Witness ==
    LET f == fr[1] IN
    /\ Declared(entry.resourcePath) = <<5, 3, 0>> /\ clusterVer = <<5, 3, 0, 12>>
    /\ f.pc = "done" /\ f.op = "Create" /\ f.gate = "pass" /\ IsOk(f.ret)

\* C10: on a cluster strictly older than the resource's minimum, none of the
\* eight operations hands a request for the resource's own path to the
\* dispatcher, and each returns the version-incompatible error once the gate
\* has obtained the version (the lookup's own error when the lookup fails).
C10_OlderClusterBlocksAll ==
    \A c \in Callers :
        LET f   == fr[c]
            min == Declared(entry.resourcePath)
        IN
        (min # dummyClusterVersion /\ StrictlyLess(clusterVer, min) /\ f.op \in CrudOps) =>
            /\ OwnReqs(f) = {}
            /\ f.pc = "done" =>
                  \/ f.ret = VersionError(entry.resourceType, SubSeq(clusterVer, 1, 3), min)
                  \/ /\ f.gate = "error"
                     /\ sysVersion = NoVersion
                     /\ f.ret \in {Error("hook"), Error("auth"), Error("transport"),
                                   Error("status"), Error("decode"), Error("afterhook")}

\* C10 witness: Ensure on volumes against a 5.2.9 cluster returned the
\* version error after the lookup alone
C10_Witness ==
    LET f == fr[1] IN
    /\ f.pc = "done" /\ f.op = "Ensure" /\ entry = Volumes
    /\ f.ret.kind = "err" /\ f.ret.err = "version"
    /\ Len(f.reqs) = 1 /\ SentAs(f.reqs[1], VersionReq)

\* C11: on a cluster strictly older than the minimum of the
\* block-host-mapping resource, Map, UnMap and EnsureMap hand no PATCH
\* {resourcePath}/bulk request to the dispatcher.
C11_OlderClusterBlocksMap ==
    \A c \in Callers :
        LET f == fr[c] IN
        (f.op \in MapOps /\ StrictlyLess(clusterVer, Declared(entry.resourcePath))) =>
            NoReq(f, "PATCH")

\* C11 for EnsureMap alone, whose Get runs the gate check
C11_OlderClusterBlocksEnsureMap ==
    \A c \in Callers :
        LET f == fr[c] IN
        (f.op = "EnsureMap" /\ StrictlyLess(clusterVer, Declared(entry.resourcePath))) =>
            NoReq(f, "PATCH")

\* C11 witness: against a 5.2.9 cluster Map sent PATCH blockhostvolumes/bulk
\* and went on to wait for the task
C11_Witness ==
    LET f == fr[1] IN
    /\ entry = BlockHostMappings /\ clusterVer = <<5, 2, 9, 1>>
    /\ f.op = "Map" /\ f.pc = "done" /\ IsOk(f.ret) /\ f.polls >= 1
    /\ Len(f.reqs) = 1
    /\ SentAs(f.reqs[1], Req("PATCH", Path("blockhostvolumes", <<"bulk">>), <<>>,
                             PairsBody("pairs_to_add", 1, 2), "op"))

----------------------------------------------------------------------------
\* The session layer

\* the call of caller c has left Authorize's decision in this step
Decided(c) == sc[c].pc = "lock" /\ sc'[c].pc # "lock"

\* Authorize of caller c has returned nil in this step
Authorized(c) == sc[c].pc \in {"lock", "exchange"} /\ sc'[c].pc = "header"

\* the steps of a dispatcher call in their order
StepOrder == <<"before", "http", "decode", "tag", "after">>

IsPrefix(p, q) == Len(p) <= Len(q) /\ \A i \in 1..Len(p) : p[i] = q[i]

\* C13: while every exchange so far has succeeded, the first Authorize sends
\* exactly one acquire and no refresh; an Authorize less than 10 minutes after
\* the last issuance sends nothing; an Authorize 10 minutes or more after it
\* sends exactly one refresh and no acquire; nothing is sent outside Authorize's
\* decision
C13_ExchangePerAuthorize ==
    [][\A c \in SessCallers :
         /\ (Decided(c) /\ ~hist.failed) =>
              /\ ~hist.began =>
                   sc'[c].acq = 1 /\ sc'[c].ref = 0 /\ sc'[c].pc = "exchange"
              /\ (hist.began /\ now - hist.lastIssue < 10) =>
                   sc'[c].acq = 0 /\ sc'[c].ref = 0 /\ sc'[c].pc = "header"
              /\ (hist.began /\ now - hist.lastIssue >= 10) =>
                   sc'[c].acq = 0 /\ sc'[c].ref = 1 /\ sc'[c].pc = "exchange"
              /\ hist.began => hist.lastIssue >= 0
         /\ (~Decided(c) /\ sc[c].pc # "done") =>
              sc'[c].acq = sc[c].acq /\ sc'[c].ref = sc[c].ref]_vars

C13_Witness ==
    \E c \in SessCallers :
        /\ sc[c].pc = "http" /\ sc[c].ref = 1 /\ sc[c].acq = 0
        /\ ~hist.failed /\ now = 10
        /\ sc[c].hdr = <<"refresh", 10>>

\* C14: at most one acquire or refresh exchange is in flight at a time; a caller
\* that waited for the lock while another caller's successful exchange was in
\* flight sends no exchange of its own and is authorized; concurrent first uses
\* send one acquire between them
C14_OneExchangeAtATime ==
    /\ Cardinality({c \in SessCallers : sc[c].pc = "exchange"}) <= 1
    /\ hist.acqs <= 1
    /\ \A c \in SessCallers :
          /\ sc[c].pc = "exchange" => mu = c
          /\ sc[c].waited =>
                /\ sc[c].acq + sc[c].ref = 0
                /\ sc[c].pc \in {"lock", "header", "http", "after", "done"}
                /\ sc[c].authErr = "nil"

C14_Witness ==
    \E c, d \in SessCallers :
        /\ c # d
        /\ sc[c].waited /\ sc[c].pc = "http" /\ sc[c].hdr = <<"refresh", 10>>
        /\ sc[d].ref = 1 /\ sc[d].pc = "http"

\* C15: when an acquire or refresh exchange gets a response outside 200..299,
\* Authorize returns an error, the held access value, refresh value and issuance
\* time stay as they were, and the call sends nothing more
C15_RefusedExchangeKeepsToken ==
    [][\A c \in SessCallers :
         (/\ sc[c].pc = "exchange" /\ sc'[c].pc # "exchange"
          /\ ~sc'[c].exResp.nil
          /\ sc'[c].exResp.StatusCode \notin 200..299) =>
             /\ auth'.Token = auth.Token
             /\ sc'[c].authErr # "nil"
             /\ sc'[c].pc = "done" /\ IsErr(sc'[c].ret)
             /\ sc'[c].acq + sc'[c].ref = 1
             /\ ~sc'[c].sent]_vars

C15_Witness ==
    \E c \in SessCallers :
        /\ sc[c].pc = "done" /\ sc[c].ref = 1
        /\ sc[c].exResp = HttpResp(401, "json")
        /\ auth.Token = Token("acquire", 0)
        /\ now >= 10

\* C16: when Authorize returns nil the held token was issued less than 10
\* minutes before; the access value put in the Authorization header is that of
\* a held token issued less than 10 minutes before the header is built
C16_TokenCurrentAtUse ==
    [][\A c \in SessCallers :
         /\ Authorized(c) =>
              auth'.Token.held /\ now' - auth'.Token.CreatedAt < 10
         /\ (sc[c].pc = "header" /\ sc'[c].pc = "http") =>
              /\ sc'[c].sent
              /\ sc'[c].hdr[1] \in {"acquire", "refresh"}
              /\ now' - sc'[c].hdr[2] < 10]_vars

C16_Witness ==
    \E c \in SessCallers :
        /\ sc[c].pc = "http" /\ sc[c].acq + sc[c].ref = 0
        /\ sc[c].hdr = <<"refresh", 10>> /\ now = 15

\* C17: when Authorize returns an error the session verb call returns that
\* error and the request to the target URL is never sent
C17_NoCredentialNoRequest ==
    \A c \in SessCallers :
        sc[c].authErr # "nil" =>
            /\ sc[c].pc = "done"
            /\ sc[c].ret = Error(sc[c].authErr)
            /\ ~sc[c].sent
            /\ sc[c].resp.nil
            /\ sc[c].trace = <<"before">>

C17_Witness ==
    \E c \in SessCallers :
        /\ sc[c].pc = "done" /\ sc[c].authErr = "unreachable"
        /\ sc[c].acq = 1 /\ ~sc[c].sent

\* C18: a response that is not nil is accepted exactly when its status code is
\* in 200..299; any other status gives an error together with the response
C18_AcceptedIff2xx ==
    \A c \in SessCallers :
        /\ ~sc[c].resp.nil =>
              /\ sc[c].vr.err = "nil" <=> sc[c].resp.StatusCode \in 200..299
              /\ sc[c].vr.resp = sc[c].resp
              /\ sc[c].vr.err # "nil" => sc[c].pc = "done" /\ sc[c].ret = Error("status")
              /\ sc[c].vr.err = "nil" => sc[c].ret # Error("status")
        /\ ~sc[c].exResp.nil =>
              sc[c].authErr = "status" <=> sc[c].exResp.StatusCode \notin 200..299

C18_Witness ==
    \E c \in SessCallers :
        /\ sc[c].pc = "after"
        /\ sc[c].resp = HttpResp(299, "json")
        /\ sc[c].vr.err = "nil"

\* C19: when the before-request hook returns an error the dispatcher returns
\* that error, takes no part in an authorization exchange, sends no HTTP
\* request, and does not invoke the after-request hook
C19_BeforeHookErrorAborts ==
    \A c \in SessCallers :
        sc[c].hookErr # "nil" =>
            /\ sc[c].pc = "done"
            /\ sc[c].ret = Error(sc[c].hookErr)
            /\ sc[c].acq + sc[c].ref = 0
            /\ mu # c
            /\ ~sc[c].sent /\ sc[c].resp.nil
            /\ sc[c].afterCalls = 0
            /\ sc[c].trace = <<"before">>

C19_Witness ==
    \E c \in SessCallers :
        /\ sc[c].pc = "done" /\ sc[c].hookErr = "hook"
        /\ ~hist.began

\* the steps of a call are in order, and the after-request hook runs at most
\* once, after every earlier step succeeded, on the tagged result
OrderedSteps(f, resourceType) ==
    /\ IsPrefix(f.trace, StepOrder)
    /\ f.afterCalls <= 1
    /\ f.afterCalls = 1 <=> f.trace = StepOrder
    /\ f.afterCalls = 1 =>
          /\ f.hookErr = "nil" /\ f.authErr = "nil"
          /\ f.sent /\ f.vr.err = "nil" /\ ~f.resp.nil
          /\ IsOk(f.afterArg) /\ f.afterArg.shape = f.shape
          /\ f.shape = "Record" =>
                /\ f.afterArg.val.rtype # NoTag
                /\ f.afterArg.val =
                      setResourceKey("Record", Decoded(f.resp.Body), resourceType)
          /\ f.pc = "done"

\* C20: in every dispatcher call the steps occur in the order before-hook, HTTP
\* call, decode, tagging, after-hook; the after-hook runs at most once, only
\* after all earlier steps succeeded, on the tagged result, and what it returns
\* is what the caller receives
C20_HookResultReturned ==
    \A c \in SessCallers :
        /\ OrderedSteps(sc[c], entry.resourceType)
        /\ sc[c].afterCalls = 1 =>
              sc[c].ret = doAfterRequest(sc[c].afterArg, sc[c].hook)

\* C20 for hooks that return a value of the shape they were given
C20_HookResultReturned_SameShape ==
    \A c \in SessCallers :
        /\ OrderedSteps(sc[c], entry.resourceType)
        /\ (sc[c].afterCalls = 1 /\ sc[c].hook # "reshape") =>
              sc[c].ret = doAfterRequest(sc[c].afterArg, sc[c].hook)

C20_Witness ==
    \E c \in SessCallers :
        /\ sc[c].pc = "done" /\ sc[c].afterCalls = 1
        /\ sc[c].hook = "reshape"
        /\ sc[c].ret = Panic("interface conversion")


----------------------------------------------------------------------------
\* WaitTask

\* the timeout error of WaitTask
TimeoutError == Error("task did not complete in time")

\* caller c is in WaitTask and its last task fetch returned a task with a
\* numeric id in the given states (lower case)
Observed(c, states) ==
    /\ fr[c].op = "WaitTask"
    /\ IsOk(fr[c].last)
    /\ fr[c].last.val.id[1] \in {"float64", "int64", "int"}
    /\ ToLower(fr[c].last.val.state) \in states

\* C21: on the first task fetch that returns the task in state completed, in
\* any letter case, WaitTask returns that task with no error, within 30
\* fetches, and fetches no more
C21_CompletedReturnsTask ==
    \A c \in SeqCallers :
        Observed(c, {"completed"}) =>
            /\ fr[c].pc = "done"
            /\ fr[c].ret = fr[c].last
            /\ fr[c].polls <= 30
            /\ fr[c].reqs = <<>>

C21_Witness ==
    \E c \in SeqCallers :
        /\ Observed(c, {"completed"})
        /\ fr[c].last.val.state = "COMPLETED"
        /\ fr[c].polls = 30 /\ fr[c].running = 29
        /\ fr[c].pc = "done" /\ IsOk(fr[c].ret)

\* C22: while every task fetch has found the task running WaitTask goes on
\* fetching up to the 30th; after 30 such fetches it returns the timeout error;
\* it never returns an error before the 30th fetch nor fetches a 31st time
C22_ThirtyFetchesThenTimeout ==
    \A c \in SeqCallers :
        fr[c].op = "WaitTask" =>
            /\ fr[c].polls <= 30
            /\ (fr[c].pc = "done" /\ IsErr(fr[c].ret)) =>
                  fr[c].polls = 30 /\ fr[c].ret = TimeoutError
            /\ (fr[c].running = fr[c].polls /\ fr[c].polls < 30) => fr[c].pc \in {"poll", "await"}
            /\ (fr[c].running = fr[c].polls /\ fr[c].polls = 30) =>
                  fr[c].pc = "done" /\ fr[c].ret = TimeoutError

C22_Witness ==
    \E c \in SeqCallers :
        /\ fr[c].op = "WaitTask" /\ fr[c].pc = "done"
        /\ fr[c].running = 30 /\ fr[c].polls = 30
        /\ fr[c].ret = TimeoutError

\* the failure error for what the last fetch returned: the last message, or
\* the error for a message list that is empty or not a list
FailureOf(task) ==
    IF ~task.messages.list THEN Error("messageformat")
    ELSE IF task.messages.items = <<>> THEN Error("nomessages")
    ELSE TaskFailedError(task.messages.items[Len(task.messages.items)])

\* C23: when a task fetch returns the task in a state other than completed or
\* running, WaitTask stops fetching and returns the failure error with the
\* last message (or the error for an empty or malformed message list)
C23_FailedStateIsTerminal ==
    \A c \in SeqCallers :
        Observed(c, {"failed"}) =>
            /\ fr[c].pc = "done"
            /\ fr[c].ret = FailureOf(fr[c].last.val)

\* what WaitTask does instead: a failed task is fetched again until the 30
\* fetches are used up, and the timeout error is returned
C23_FailedStateEndsInTimeout ==
    \A c \in SeqCallers :
        Observed(c, {"failed"}) =>
            /\ fr[c].polls < 30 => fr[c].pc \in {"poll", "await"}
            /\ fr[c].polls = 30 => fr[c].pc = "done" /\ fr[c].ret = TimeoutError

C23_Witness ==
    \E c \in SeqCallers :
        /\ Observed(c, {"failed"})
        /\ fr[c].last.val.messages = Messages(<<"m1", "m2">>)
        /\ fr[c].polls = 1 /\ fr[c].pc = "poll"


----------------------------------------------------------------------------
\* Requests of the basic operations

BasicOps == {"List", "Get", "GetById", "Create", "Update", "DeleteById"}

\* the requests of its own that the operation has sent
SentOwn(f) == {i \in 1..Len(f.reqs) : f.reqs[i].by = "op" /\ f.reqs[i].sent}

\* C24: a List, Get, GetById, Create, Update or DeleteById call is over as soon
\* as the response to its request is in, having sent that one request to the
\* resource and no other; if the server was unreachable or refused the request
\* the caller gets the error
C24_NoRetry ==
    [][\A c \in SeqCallers :
         (/\ fr[c].op \in BasicOps
          /\ fr[c].pc = "await" /\ fr[c].at = "main"
          /\ fr'[c] # fr[c]) =>
             /\ fr'[c].pc = "done"
             /\ fr'[c].reqs = fr[c].reqs
             /\ Cardinality(SentOwn(fr'[c])) = 1
             /\ \A i \in SentOwn(fr'[c]) : fr'[c].reqs[i].path.base = entry.resourcePath
             /\ ~Serve(fr[c].reqs[Len(fr[c].reqs)], store, clusterVer).ok =>
                   fr'[c].ret \in {Error("status"), Error("transport")}]_vars

C24_Witness ==
    \E c \in SeqCallers :
        /\ fr[c].op = "Update" /\ fr[c].pc = "done"
        /\ fr[c].ret = Error("transport")
        /\ Cardinality(SentOwn(fr[c])) = 1

\* C25: the URL of every request a CRUD operation hands over is
\* https://{host}:{port}/api/{configured API version}/{resource path}
C25_UrlCarriesApiVersion ==
    \A c \in SeqCallers :
        fr[c].op \in CrudOps =>
            \A i \in 1..Len(fr[c].reqs) :
                fr[c].reqs[i].by = "op" =>
                    LET u == fr[c].reqs[i].url IN
                    /\ u.Scheme = "https" /\ u.Host = Config.Host /\ u.Port = Config.Port
                    /\ u.prefix = <<"api", Config.ApiVersion>>
                    /\ u.path.base = entry.resourcePath

\* what buildUrl gives instead: https://{host}:{port}/api/{resource path}
C25_UrlWithoutApiVersion ==
    \A c \in SeqCallers :
        fr[c].op \in CrudOps =>
            \A i \in 1..Len(fr[c].reqs) :
                fr[c].reqs[i].by = "op" =>
                    LET u == fr[c].reqs[i].url IN
                    /\ u.Scheme = "https" /\ u.Host = Config.Host /\ u.Port = Config.Port
                    /\ u.prefix = <<"api">>
                    /\ u.path = fr[c].reqs[i].path

C25_Witness ==
    \E c \in SeqCallers :
        /\ fr[c].op = "List" /\ fr[c].pc = "done" /\ IsOk(fr[c].ret)
        /\ Len(fr[c].reqs) >= 1
        /\ fr[c].reqs[Len(fr[c].reqs)].sent
        /\ fr[c].reqs[Len(fr[c].reqs)].url.prefix = <<"api">>
        /\ fr[c].reqs[Len(fr[c].reqs)].url.path = Path(entry.resourcePath, <<>>)


\* the request went out: the gate passed, the hook let it through and the
\* authenticator gave a credential
WentOut(f) ==
    /\ f.gate = "pass"
    /\ \/ f.pc = "await" /\ f.at = "main"
       \/ f.pc = "done" /\ f.ret \notin {Error("hook"), Error("auth")}

\* the query holds exactly the pairs of params
QueryOf(query, params) ==
    /\ {query[j] : j \in 1..Len(query)} = params.kv
    /\ Len(query) = Cardinality(params.kv)

\* C26: when the gate passes and the request goes out, a basic operation sends
\* exactly one request to the resource: List GET {path} with params as query,
\* Create POST {path} with the body, Update PATCH {path}/{id} with the body,
\* GetById GET {path}/{id}, DeleteById DELETE {path}/{id}
C26_OneRequestPerOperation ==
    \A c \in SeqCallers :
        LET f == fr[c] IN
        (f.op \in {"List", "Create", "Update", "GetById", "DeleteById"} /\ WentOut(f)) =>
            /\ Cardinality(SentOwn(f)) = 1
            /\ \A i \in SentOwn(f) :
                  LET q == f.reqs[i] IN
                  /\ q.path.base = entry.resourcePath
                  /\ f.op = "List" =>
                        /\ q.verb = "GET" /\ q.path.sub = <<>>
                        /\ QueryOf(q.query, f.params) /\ q.body.nil
                  /\ f.op = "Create" =>
                        /\ q.verb = "POST" /\ q.path.sub = <<>>
                        /\ q.query = <<>> /\ q.body = f.given
                  /\ f.op = "Update" =>
                        /\ q.verb = "PATCH" /\ q.path.sub = <<f.id>>
                        /\ q.query = <<>> /\ q.body = f.given
                  /\ f.op = "GetById" =>
                        /\ q.verb = "GET" /\ q.path.sub = <<f.id>>
                        /\ q.query = <<>> /\ q.body.nil
                  /\ f.op = "DeleteById" =>
                        /\ q.verb = "DELETE" /\ q.path.sub = <<f.id>>
                        /\ q.query = <<>> /\ q.body.nil

C26_Witness ==
    \E c \in SeqCallers :
        /\ fr[c].op = "Update" /\ fr[c].pc = "done" /\ IsOk(fr[c].ret)
        /\ fr[c].id = 7 /\ fr[c].given = P({<<"name", "b">>, <<"path", "x">>})
        /\ Cardinality(SentOwn(fr[c])) = 1
        /\ fr[c].ret.val.name = "b"

----------------------------------------------------------------------------
\* Params.Update

\* the receiver after the call holds key k with the value it has in m
Took(k, m) == Has(call.out.val, k) /\ Val(call.out.val, k) = Val(m, k)

\* C27: after pr.Update(other, override) every key of other absent from pr is
\* there with other's value; a key of both has other's value when override is
\* true and pr's value when override is false; every other key is as it was
C27_OverrideReplaces ==
    (call.fn = "Params.Update" /\ ~call.pr.nil) =>
        /\ IsOk(call.out)
        /\ \A k \in MergeKeys :
              /\ (Has(call.other, k) /\ ~Has(call.pr, k)) => Took(k, call.other)
              /\ (Has(call.other, k) /\ Has(call.pr, k)) =>
                    IF call.override THEN Took(k, call.other) ELSE Took(k, call.pr)
              /\ (~Has(call.other, k) /\ Has(call.pr, k)) => Took(k, call.pr)
              /\ (~Has(call.other, k) /\ ~Has(call.pr, k)) => ~Has(call.out.val, k)

\* what Update does: a key of both keeps pr's value when override is true and
\* takes other's value when override is false
C27_OverrideKeeps ==
    (call.fn = "Params.Update" /\ ~call.pr.nil) =>
        /\ IsOk(call.out)
        /\ \A k \in MergeKeys :
              /\ (Has(call.other, k) /\ ~Has(call.pr, k)) => Took(k, call.other)
              /\ (Has(call.other, k) /\ Has(call.pr, k)) =>
                    IF call.override THEN Took(k, call.pr) ELSE Took(k, call.other)
              /\ (~Has(call.other, k) /\ Has(call.pr, k)) => Took(k, call.pr)
              /\ (~Has(call.other, k) /\ ~Has(call.pr, k)) => ~Has(call.out.val, k)

C27_Witness ==
    /\ call.fn = "Params.Update"
    /\ call.pr = P({<<"name", "a">>})
    /\ call.other = P({<<"name", "b">>, <<"path", "a">>})
    /\ call.override
    /\ call.out = Ok("Params", P({<<"name", "a">>, <<"path", "a">>}))

----------------------------------------------------------------------------
\* GetVersion on an unusable answer

\* the status query succeeded and its list has no usable version
Unusable(r) ==
    /\ IsOk(r)
    /\ \/ Len(r.val) = 0
       \/ "sys_version" \notin DOMAIN r.val[1]
       \/ Len(r.val[1].sys_version) < 3

\* C28: when the status query succeeds but yields no usable version (an empty
\* list, a record without a string sys_version, a version of fewer than three
\* segments), GetVersion returns an error value to its caller and the cache
\* stays empty
C28_UnusableVersionIsAnError ==
    \A c \in Callers :
        LET f == fr[c] IN
        (f.op = "GetVersion" /\ f.pc = "done" /\ Unusable(f.listRet)) =>
            /\ IsErr(f.ret)
            /\ sysVersion = NoVersion

\* what the code does on such an answer: GetVersion faults, with the cache
\* still empty
C28_UnusableVersionFaults ==
    \A c \in Callers :
        LET f == fr[c] IN
        (f.op = "GetVersion" /\ f.pc = "done" /\ Unusable(f.listRet)) =>
            /\ f.ret.kind = "panic"
            /\ sysVersion = NoVersion

\* GetVersion received an empty list from a successful status query and
\* faulted on result[0]
C28_Witness ==
    \E c \in Callers :
        /\ fr[c].op = "GetVersion"
        /\ fr[c].pc = "done"
        /\ fr[c].listRet = Ok("RecordSet", <<>>)
        /\ fr[c].ret = Panic("index out of range")

----------------------------------------------------------------------------
\* The resource-kind tag

\* the records of a record or of a record set, in order
RecordsOf(shape, val) == IF shape = "Record" THEN <<val>> ELSE val

\* the records the body of a response decodes into
DecodedRecords(shape, body) ==
    IF shape = "Record" THEN <<Decoded(body)>> ELSE DecodedSet(body)

\* C29: what the after-request hook is given after a successful call for a
\* record or a record set is the decoded record(s), every one carrying a
\* resource-kind tag: the tag of the response where it had one, the kind name
\* of the calling resource entry where it had none, every other key unchanged
C29_EveryRecordTagged ==
    \A c \in SessCallers :
        LET f   == sc[c]
            got == RecordsOf(f.shape, f.afterArg.val)
            dec == DecodedRecords(f.shape, f.resp.Body)
        IN
        (f.shape \in {"Record", "RecordSet"} /\ IsOk(f.afterArg)) =>
            /\ Len(got) = Len(dec)
            /\ \A i \in 1..Len(dec) :
                    /\ got[i].rtype # NoTag
                    /\ dec[i].rtype # NoTag => got[i].rtype = dec[i].rtype
                    /\ dec[i].rtype = NoTag => got[i].rtype = entry.resourceType
                    /\ DOMAIN got[i] = DOMAIN dec[i]
                    /\ \A k \in DOMAIN dec[i] \ {"rtype"} : got[i][k] = dec[i][k]

\* the hook ran on a record set whose first record came tagged and kept its tag
\* and whose second came untagged and got the entry's kind name
C29_Witness ==
    \E c \in SessCallers :
        /\ sc[c].shape = "RecordSet"
        /\ sc[c].afterCalls = 1
        /\ sc[c].resp = HttpResp(200, "tagged")
        /\ Len(sc[c].afterArg.val) = 2
        /\ sc[c].afterArg.val[1].rtype = "Other"
        /\ sc[c].afterArg.val[2].rtype = entry.resourceType

----------------------------------------------------------------------------
\* The empty record

\* C30: a call whose expected shape is the empty record (DeleteById) never
\* reads or decodes the response body: on any 2xx response, whatever its body,
\* the empty record reaches the after-request hook, and the call returns it
\* with no error when the hook leaves it alone
C30_EmptyRecordSkipsBody ==
    \A c \in SessCallers :
        LET f == sc[c] IN
        (/\ f.shape = "EmptyRecord"
         /\ ~f.resp.nil
         /\ f.resp.StatusCode \in 200..299) =>
            /\ ~f.bodyRead
            /\ f.afterArg = EmptyRecord
            /\ f.pc = "done" => f.afterCalls = 1
            /\ (f.pc = "done" /\ f.hook = "keep") => f.ret = EmptyRecord

\* a call for an empty record returned one from a 2xx response whose body is
\* no JSON
C30_Witness ==
    \E c \in SessCallers :
        /\ sc[c].shape = "EmptyRecord"
        /\ sc[c].resp = HttpResp(200, "garbage")
        /\ sc[c].pc = "done"
        /\ sc[c].hook = "keep"
        /\ sc[c].ret = EmptyRecord
        /\ ~sc[c].bodyRead

----------------------------------------------------------------------------
\* The refresh exchange

\* the exchange of caller c came back and Authorize took a token from it
ExchangeSucceeded(c, kind) ==
    /\ sc[c].pc = "exchange"
    /\ sc[c].kind = kind
    /\ sc'[c].pc = "header"

\* C31: a successful refresh exchange replaces the held access value, refresh
\* value and issuance time by those of its response, and every refresh
\* exchange sends the refresh value of the most recent successful exchange
C31_RefreshRotates ==
    [][\A c \in SessCallers :
          /\ ExchangeSucceeded(c, "refresh") =>
                /\ auth'.Token = Token("refresh", now)
                /\ auth'.Token.Access # auth.Token.Access
                /\ auth'.Token.Refresh # auth.Token.Refresh
                /\ auth'.Token.CreatedAt # auth.Token.CreatedAt
          /\ (sc[c].pc = "lock" /\ sc'[c].pc = "exchange" /\ sc'[c].kind = "refresh") =>
                /\ hist.lastIssue >= 0
                /\ sc'[c].exReq.body \in {<<k, hist.lastIssue>> : k \in {"acquire", "refresh"}}
                /\ sc'[c].exReq.body = auth.Token.Refresh]_vars

\* a second refresh is on its way carrying the refresh value the first refresh
\* brought, not the one of the acquisition
C31_Witness ==
    \E c \in SessCallers :
        /\ sc[c].pc = "exchange"
        /\ sc[c].kind = "refresh"
        /\ sc[c].exReq.body[1] = "refresh"
        /\ auth.Token.CreatedAt > 0
        /\ sc[c].exReq.body = auth.Token.Refresh

----------------------------------------------------------------------------
\* WaitTask comes to an end

\* C32: provided each task fetch returns, WaitTask returns a record or an
\* error whatever the fetches report, and never makes more than 30 fetches
C32_WaitTaskTerminates ==
    /\ [](\A c \in SeqCallers : fr[c].op = "WaitTask" => fr[c].polls <= WaitTaskRetries)
    /\ \A c \in SeqCallers :
          (fr[c].op = "WaitTask" /\ fr[c].pc # "done")
              ~> (fr[c].op = "WaitTask" /\ fr[c].pc = "done" /\ fr[c].ret.kind \in {"ok", "err"})

\* WaitTask gave up after 30 fetches of which some saw the task running and
\* the others failed or saw a failed task
C32_Witness ==
    \E c \in SeqCallers :
        /\ fr[c].op = "WaitTask" /\ fr[c].pc = "done"
        /\ fr[c].polls = WaitTaskRetries
        /\ fr[c].running > 0 /\ fr[c].running < fr[c].polls
        /\ fr[c].ret.kind = "err"

----------------------------------------------------------------------------
\* Concurrent GetVersion

\* the core version of the cluster the callers talk to
ServerCore == SubSeq(clusterVer, 1, 3)

\* C33: with several callers in GetVersion at once against a server whose
\* version does not change, the cache only ever holds that version's core,
\* whoever wrote it, and every caller that returns a version returns it
C33_ConcurrentLookupsAgree ==
    /\ sysVersion \in {NoVersion, ServerCore}
    /\ \A c \in Callers :
          (fr[c].op = "GetVersion" /\ fr[c].pc = "done" /\ IsOk(fr[c].ret)) =>
              fr[c].ret = Ok("Version", ServerCore)

\* two callers each found the cache empty, each issued a lookup of its own,
\* each wrote the cache and each returned the same version
C33_Witness ==
    /\ \A c \in Callers :
          /\ fr[c].op = "GetVersion" /\ fr[c].pc = "done"
          /\ Len(fr[c].reqs) = 1 /\ fr[c].reqs[1].sent
          /\ IsOk(fr[c].listRet)
          /\ fr[c].ret = Ok("Version", ServerCore)
    /\ sysVersion = ServerCore

----------------------------------------------------------------------------
\* Concurrent Ensure

\* caller c is in Ensure(name), its lookup reported not-found and its Create
\* for that name has gone out
CreatedAfterNotFound(c, name) ==
    LET f == fr[c] IN
    /\ f.op = "Ensure" /\ f.name = name
    /\ isNotFoundErr(f.getRet)
    /\ \E i \in 1..Len(f.reqs) :
          /\ f.reqs[i].verb = "POST" /\ f.reqs[i].sent
          /\ Val(f.reqs[i].body, "name") = name

\* C34: Ensure goes from its lookup to its Create on what the lookup saw and
\* nothing else: a Create is issued exactly by a caller whose own lookup
\* reported not-found, whatever the server holds by then, so two concurrent
\* calls for one absent name can both create it
C34_EnsureDecidesOnOwnLookup ==
    \A c \in EnsurePair :
        LET f == fr[c] IN
        f.op = "Ensure" =>
            /\ ~NoReq(f, "POST") => isNotFoundErr(f.getRet)
            /\ (isNotFoundErr(f.getRet) /\ ~f.body.nil /\ f.pc = "done" /\ f.gate = "pass"
                    /\ f.ret # Error("hook") /\ f.ret # Error("auth")) =>
                  ~NoReq(f, "POST")

\* both callers looked the same absent name up, both saw not-found, both sent
\* a Create for it, and the server now holds two records of that name
C34_Witness ==
    \E name \in Names :
        /\ \A c \in EnsurePair : CreatedAfterNotFound(c, name) /\ fr[c].pc = "done" /\ IsOk(fr[c].ret)
        /\ Cardinality({r \in store : r.name = name}) = 2

----------------------------------------------------------------------------
\* A gate check whose lookup fails

\* the errors a request returns when it fails
RequestErrors ==
    {Error("hook"), Error("auth"), Error("transport"), Error("status"), Error("decode"),
     Error("afterhook")}

\* C35: a gated operation whose version lookup failed returns the lookup's
\* error, has handed no request for the resource's own path to the dispatcher
\* and leaves the cache empty; and with the cache empty, the gate check of a
\* gated operation performs the lookup
C35_FailedLookupIsNotCached ==
    /\ [](\A c \in SeqCallers :
            LET f == fr[c] IN
            (f.op \in CrudOps /\ f.gate = "error") =>
                /\ f.pc = "done"
                /\ f.ret \in RequestErrors
                /\ OwnReqs(f) = {}
                /\ sysVersion = NoVersion)
    /\ [][\A c \in SeqCallers :
            (/\ fr[c].pc = "gate" /\ fr[c].op \in CrudOps /\ fr'[c] # fr[c]
             /\ fr[c].meth \in GatedMethods
             /\ Declared(entry.resourcePath) # dummyClusterVersion
             /\ sysVersion = NoVersion) =>
                /\ Len(fr'[c].reqs) = Len(fr[c].reqs) + 1
                /\ fr'[c].reqs[Len(fr'[c].reqs)].path.base = Versions.resourcePath]_vars

\* a Create on volumes returned the status error of its version lookup, the
\* lookup being the only request made, and the cache is still empty
C35_Witness ==
    \E c \in SeqCallers :
        /\ entry = Volumes
        /\ fr[c].op = "Create" /\ fr[c].pc = "done" /\ fr[c].gate = "error"
        /\ fr[c].ret = Error("status")
        /\ Len(fr[c].reqs) = 1 /\ SentAs(fr[c].reqs[1], VersionReq)
        /\ sysVersion = NoVersion

----------------------------------------------------------------------------
\* The initialized flag

\* Authorize faulted in caller c
Faulted(c) == sc[c].pc = "done" /\ sc[c].ret.kind = "panic"

\* C36: the initialized flag is set only if a token is held, so that after a
\* failed first acquisition the next Authorize acquires again, and no
\* Authorize faults
C36_InitializedOnlyWithToken ==
    /\ auth.initialized => auth.Token.held
    /\ \A c \in SessCallers : ~Faulted(c)

\* what the code does: the flag is set by the first acquisition whatever came
\* of it, the acquire exchange is sent once in the life of the authenticator,
\* and an Authorize that finds the flag set without a token faults
C36_FailedAcquireLeavesFlagSet ==
    /\ auth.initialized <=> (hist.lastIssue >= 0 \/ hist.failed)
    /\ (auth.initialized /\ ~auth.Token.held) => hist.failed
    /\ hist.acqs <= 1
    /\ \A c \in SessCallers :
          Faulted(c) =>
              /\ auth.initialized /\ ~auth.Token.held
              /\ sc[c].acq = 0 /\ sc[c].ref = 0
              /\ sc[c].ret = Panic("nil pointer dereference")

\* the acquisition got a refusal, and the next Authorize faulted on the token
\* that is not there instead of acquiring again
C36_Witness ==
    \E c \in SessCallers :
        /\ Faulted(c)
        /\ sc[c].acq = 0
        /\ auth.initialized /\ ~auth.Token.held
        /\ hist.failed /\ hist.acqs = 1

----------------------------------------------------------------------------
\* The address of the exchanges

\* the configured host and port
Configured(config) == <<config.Host, config.Port>>

\* C37: the acquire exchange and the refresh exchange both go to the
\* configured host and port, where the resource requests go
C37_ExchangesUseConfiguredPort ==
    call.fn \in {"acquireToken", "refreshToken", "buildUrl"} =>
        Address(call.url) = Configured(call.config)

\* what the code does: the acquire exchange and the resource requests go to
\* the configured host and port, the refresh exchange to the configured host
\* on the https port whatever port is configured
C37_RefreshIgnoresPort ==
    /\ call.fn \in {"acquireToken", "buildUrl"} =>
          Address(call.url) = Configured(call.config)
    /\ call.fn = "refreshToken" =>
          Address(call.url) = <<call.config.Host, HttpsPort>>

\* with port 8443 configured, the refresh exchange is addressed to port 443
C37_Witness ==
    /\ call.fn = "refreshToken"
    /\ call.config.Port = 8443
    /\ call.url.Port = NoUrl.Port
    /\ Address(call.url) # Configured(call.config)

----------------------------------------------------------------------------
\* A task fetch that fails

\* the fetch failed: GetById returned an error, or a record whose id is no
\* number
FetchFailed(r) == IsErr(r) \/ (IsOk(r) /\ ~toInt(r.val.id).ok)

\* a fetch of caller c's WaitTask returns in this step
Fetched(c) ==
    /\ fr[c].op = "WaitTask" /\ fr'[c].op = "WaitTask"
    /\ fr'[c].polls = fr[c].polls + 1

\* C38: a task fetch that fails takes one attempt off WaitTask's budget and
\* does not end the wait while attempts remain; a fetch that then sees the
\* task completed returns the task record, however many fetches failed before
C38_FailedFetchIsRetried ==
    [][\A c \in SeqCallers :
          Fetched(c) =>
              LET r == fr'[c].last IN
              /\ FetchFailed(r) =>
                    /\ fr'[c].retries = fr[c].retries - 1
                    /\ fr'[c].retries > 0 => fr'[c].pc = "poll"
                    /\ fr'[c].retries = 0 => fr'[c].pc = "done" /\ fr'[c].ret = TimeoutError
              /\ (~FetchFailed(r) /\ ToLower(r.val.state) = "completed") =>
                    /\ fr[c].retries > 0
                    /\ fr'[c].pc = "done"
                    /\ fr'[c].ret = r]_vars

\* the first fetch met an unreachable server; WaitTask has 29 attempts left
\* and is about to fetch again
C38_Witness ==
    \E c \in SeqCallers :
        /\ fr[c].op = "WaitTask" /\ fr[c].pc = "poll"
        /\ fr[c].polls = 1 /\ fr[c].retries = WaitTaskRetries - 1
        /\ fr[c].last = Error("transport")

====
